---- MODULE Spec2Model ----
(***************************************************************************)
(* Rules engine of the give-back Othello variant (src/src/othello_game.py) *)
(* as a state machine: one action per public operation of OthelloGame.     *)
(***************************************************************************)
EXTENDS Integers, Sequences, FiniteSets, TLC

\* ------------------------------------------------------------------ bounds
\* Successful operations explored freely once the opening line is played out.
MaxFree == 2
\* How far outside 0..7 the row and column arguments of a call may lie.
MaxOutside == 1

\* ------------------------------------------------------- program constants
\* The board is 8 x 8 (range(8) in the constructor and in every range test).
SIZE == 8
\* chr(65 + row): the code point the position letter is counted from.
LETTER_BASE == 65
\* A move that flipped this many disks or more starts the give-back phase.
GIVE_BACK_MIN == 2
\* is_game_over: this many passes end the game.
PASS_CEILING == 10

BLACK == 1
WHITE == 0 - 1
EMPTY == 0

\* execution_time=None is <<>>, a measured time of ms milliseconds is <<ms>>.
NoTime == <<>>
ExecTimes == {NoTime, <<1234>>}

\* last_move / last_give_back: None is <<>>, "pass" is <<"pass">>, a cell <<row, col>>.
None == <<>>
PassMark == <<"pass">>

Index == 0 .. (SIZE - 1)
\* The arguments a caller may hand in: the board's indices and a margin around them.
Coords == (0 - MaxOutside) .. (SIZE - 1 + MaxOutside)

VARIABLES
    board,              \* self.board[row][col] in {-1, 0, 1}
    current_player,     \* self.current_player
    give_back_mode,     \* self.give_back_mode
    flipped_positions,  \* self.flipped_positions
    consecutive_passes, \* self.consecutive_passes
    move_history,       \* self.move_history
    move_times,         \* self.move_times
    last_move,          \* self.last_move
    last_give_back,     \* self.last_give_back
    op,                 \* the operation called last
    ret,                \* what it returned: "True", "False" or "IndexError"
    move_flips,         \* history: what flip_disks returned in the last successful make_move
    gave_back,          \* history: a give_back_disk has succeeded since that make_move
    script,             \* environment: calls of the opening line still to be issued
    free,               \* environment: successful calls made after the opening line
    position_cache,     \* ai_agent.position_cache, kept for the life of the process
    best_move,          \* what the last get_best_move returned
    search,             \* history: what the last get_best_move did
    unsorted_moves,     \* the list a sort_moves call was given
    sorted_moves,       \* what that call returned
    pc,                 \* OthelloGUI.run_game: where the window is, "off" without a window
    player_mode,        \* self.game.player_mode: "friend" or "ai"
    gui_player_color,   \* OthelloGUI.player_color: the colour the human plays
    events,             \* pygame's event queue: the cells clicked and not yet fetched
    pending             \* handle_input: the events fetched and not yet handled

game == <<board, current_player, give_back_mode, flipped_positions,
          consecutive_passes, move_history, move_times, last_move, last_give_back>>
vars == <<board, current_player, give_back_mode, flipped_positions,
          consecutive_passes, move_history, move_times, last_move, last_give_back,
          op, ret, move_flips, gave_back, script, free,
          position_cache, best_move, search, unsorted_moves, sorted_moves,
          pc, player_mode, gui_player_color, events, pending>>
\* The search agent's own state.
agent == <<position_cache, best_move, search, unsorted_moves, sorted_moves>>
\* The window's own state.
gui == <<pc, player_mode, gui_player_color, events, pending>>

\* ------------------------------------------------------- Python list access
\* lst[i] on a list of length 8: -8..-1 count from the end, anything else outside
\* 0..7 raises IndexError.
PyIndexOK(i) == (0 - SIZE) <= i /\ i < SIZE
PyIndex(i) == IF i < 0 THEN i + SIZE ELSE i

\* 0 <= r < 8 and 0 <= c < 8
InRange(r, c) == 0 <= r /\ r < SIZE /\ 0 <= c /\ c < SIZE

directions ==
    << <<0 - 1, 0 - 1>>, <<0 - 1, 0>>, <<0 - 1, 1>>, <<0, 0 - 1>>,
       <<0, 1>>, <<1, 0 - 1>>, <<1, 0>>, <<1, 1>> >>

\* ------------------------------------------------------------ __init__
\* Mutant: the four centre disks with the two colours exchanged.
InitBoard_Exchanged ==
    [r \in Index |-> [c \in Index |->
        IF <<r, c>> \in {<<3, 3>>, <<4, 4>>} THEN WHITE
        ELSE IF <<r, c>> \in {<<3, 4>>, <<4, 3>>} THEN BLACK
        ELSE EMPTY]]

InitBoard ==
    [r \in Index |-> [c \in Index |->
        IF <<r, c>> \in {<<3, 3>>, <<4, 4>>} THEN BLACK
        ELSE IF <<r, c>> \in {<<3, 4>>, <<4, 3>>} THEN WHITE
        ELSE EMPTY]]

\* ------------------------------------------------------------ is_valid_move
\* Mutant: an opponent disk next to the cell is enough, the run need not end in
\* a disk of the mover.
ValidScan_NoTerminator(b, cp, r, c, dr, dc) == InRange(r, c) /\ b[r][c] = 0 - cp

\* The while loop of one direction, entered with (r, c) = (row + dr, col + dc).
RECURSIVE ValidScan(_, _, _, _, _, _)
ValidScan(b, cp, r, c, dr, dc) ==
    IF ~(InRange(r, c) /\ b[r][c] = 0 - cp) THEN FALSE
    ELSE LET r2 == r + dr
             c2 == c + dc
         IN  IF InRange(r2, c2) /\ b[r2][c2] = cp THEN TRUE
             ELSE ValidScan(b, cp, r2, c2, dr, dc)

\* The for loop over the directions from the i-th on: True at the first bracket.
RECURSIVE ValidFrom(_, _, _, _, _)
ValidFrom(b, cp, row, col, i) ==
    IF i > Len(directions) THEN FALSE
    ELSE LET dr == directions[i][1]
             dc == directions[i][2]
         IN  IF ValidScan(b, cp, row + dr, col + dc, dr, dc) THEN TRUE
             ELSE ValidFrom(b, cp, row, col, i + 1)

is_valid_move(b, cp, gbm, row, col) ==
    IF gbm THEN "False"
    ELSE IF ~(PyIndexOK(row) /\ PyIndexOK(col)) THEN "IndexError"
    ELSE IF b[PyIndex(row)][PyIndex(col)] # 0 THEN "False"
    ELSE IF ValidFrom(b, cp, row, col, 1) THEN "True"
    ELSE "False"

\* ------------------------------------------------ get_flippable_disks
\* The while loop of one direction: the run collected so far is flip_list; the
\* result is what the direction adds to the answer.
RECURSIVE RunScan(_, _, _, _, _, _, _)
RunScan(b, cp, r, c, dr, dc, flip_list) ==
    IF ~(InRange(r, c) /\ b[r][c] = 0 - cp) THEN <<>>
    ELSE LET fl == Append(flip_list, <<r, c>>)
             r2 == r + dr
             c2 == c + dc
         IN  IF InRange(r2, c2) /\ b[r2][c2] = cp THEN fl
             ELSE RunScan(b, cp, r2, c2, dr, dc, fl)

RECURSIVE FlippableFrom(_, _, _, _, _, _)
FlippableFrom(b, cp, row, col, i, flippable) ==
    IF i > Len(directions) THEN flippable
    ELSE LET dr == directions[i][1]
             dc == directions[i][2]
         IN  FlippableFrom(b, cp, row, col, i + 1,
                 flippable \o RunScan(b, cp, row + dr, col + dc, dr, dc, <<>>))

get_flippable_disks(b, cp, row, col) == FlippableFrom(b, cp, row, col, 1, <<>>)

\* ------------------------------------------------------------ flip_disks
\* Mutant: the bracketed disks are taken off the board instead of turned over.
RECURSIVE Recolour_Capture(_, _, _, _)
Recolour_Capture(b, cp, flip_list, k) ==
    IF k > Len(flip_list) THEN b
    ELSE Recolour_Capture([b EXCEPT ![flip_list[k][1]][flip_list[k][2]] = EMPTY],
                          cp, flip_list, k + 1)

\* for fr, fc in flip_list: self.board[fr][fc] = self.current_player
RECURSIVE Recolour(_, _, _, _)
Recolour(b, cp, flip_list, k) ==
    IF k > Len(flip_list) THEN b
    ELSE Recolour([b EXCEPT ![flip_list[k][1]][flip_list[k][2]] = cp], cp, flip_list, k + 1)

\* The for loop over the directions from the i-th on; the board is written while
\* the later directions are still to be scanned. (The run of a direction and the
\* board written with it are taken as the one element of a set: each is then a
\* value computed once, where a LET would be computed again at every use.)
RECURSIVE FlipFrom(_, _, _, _, _, _)

\* The rest of the loop body once direction i has been scanned and found run
FlipNext(b, cp, row, col, i, flipped, run) ==
    CHOOSE done \in {FlipFrom(written, cp, row, col, i + 1, flipped \o run) :
                        written \in {Recolour(b, cp, run, 1)}} : TRUE

FlipFrom(b, cp, row, col, i, flipped) ==
    IF i > Len(directions) THEN [board |-> b, flipped |-> flipped]
    ELSE LET dr == directions[i][1]
             dc == directions[i][2]
         IN  CHOOSE done \in {FlipNext(b, cp, row, col, i, flipped, run) :
                                 run \in {RunScan(b, cp, row + dr, col + dc, dr, dc, <<>>)}} :
                 TRUE

flip_disks(b, cp, row, col) == FlipFrom(b, cp, row, col, 1, <<>>)

\* ------------------------------------------------------------ get_valid_moves
\* Mutant: the loops are nested the other way round, columns outside.
AllCells_ColumnMajor == [i \in 1 .. (SIZE * SIZE) |-> <<(i - 1) % SIZE, (i - 1) \div SIZE>>]

\* for row in range(8): for col in range(8): the cells in the order of the loops.
AllCells == [i \in 1 .. (SIZE * SIZE) |-> <<(i - 1) \div SIZE, (i - 1) % SIZE>>]

get_valid_moves(b, cp, gbm) ==
    IF gbm THEN <<>>
    ELSE SelectSeq(AllCells, LAMBDA p : is_valid_move(b, cp, gbm, p[1], p[2]) = "True")

has_valid_moves(b, cp, gbm) == Len(get_valid_moves(b, cp, gbm)) > 0

\* ------------------------------------------------------------ small steps
\* self.current_player *= -1
Switched(cp) == cp * (0 - 1)

\* "BLACK" if self.current_player == 1 else "WHITE"
player_color(cp) == IF cp = 1 THEN "BLACK" ELSE "WHITE"

\* if execution_time is None: execution_time = 0.0   (milliseconds here)
Elapsed(execution_time) == IF execution_time = NoTime THEN 0 ELSE execution_time[1]

\* f"{execution_time:.2f}": the time as printed, in hundredths of a second.
Fmt2(ms) == (ms + 5) \div 10

\* Mutant: the letter names the column and the number the row.
position_ColumnLetter(row, col) == <<LETTER_BASE + col, row + 1>>

\* f"{chr(65 + row)}{col + 1}": the letter's code point, then the number.
position(row, col) == <<LETTER_BASE + row, col + 1>>

\* f"{player_color}: {position} [{execution_time:.2f}s]"
move_record(cp, row, col, ms) == <<player_color(cp)>> \o position(row, col) \o <<Fmt2(ms)>>

\* f"{player_color}: gave back at {position} [{execution_time:.2f}s]"
give_back_record(cp, row, col, ms) ==
    <<player_color(cp), "gave back at">> \o position(row, col) \o <<Fmt2(ms)>>

\* f"{player_color}: pass turn [{execution_time:.2f}s]"
pass_record(cp, ms) == <<player_color(cp), "pass turn", Fmt2(ms)>>

\* Mutant: the give-back phase starts at one flipped disk.
NeedsGiveBack_AtOne(flipped) == Len(flipped) >= 1

\* if len(self.flipped_positions) >= 2
NeedsGiveBack(flipped) == Len(flipped) >= GIVE_BACK_MIN

\* self.board[row][col] = self.current_player, with Python's list indexing
Placed(b, cp, row, col) == [b EXCEPT ![PyIndex(row)][PyIndex(col)] = cp]

\* Mutant: the sign is lost and the cell keeps the mover's colour.
GivenBack_Kept(b, cp, row, col) == [b EXCEPT ![row][col] = cp]

\* self.board[row][col] = -self.current_player
GivenBack(b, cp, row, col) == [b EXCEPT ![row][col] = 0 - cp]

\* (row, col) in self.flipped_positions
InFlipped(row, col, flipped) == \E k \in 1 .. Len(flipped) : flipped[k] = <<row, col>>

\* ------------------------------------------------------------ environment
\* The caller first issues the calls of an opening line, one by one, and is then
\* free to call anything until MaxFree further calls have succeeded.
\* A caller other than the window leaves the window as it is.
\* A line that ends with Play goes on with any call, for as long as the players
\* play.
Play == <<"play">>

Issued(call) ==
    IF script # <<>> THEN call = Head(script) \/ Head(script) = Play
    ELSE free < MaxFree

Advance(success) ==
    /\ script' = IF script # <<>> /\ Head(script) # Play THEN Tail(script) ELSE script
    /\ free' = IF script = <<>> /\ success THEN free + 1 ELSE free
    /\ IF pc = "off" THEN UNCHANGED gui ELSE TRUE

Mv(r, c) == <<"make_move", r, c, NoTime>>
Gb(r, c) == <<"give_back_disk", r, c, NoTime>>
Ps == <<"pass_turn", NoTime>>

\* Played out to its last move, Black has to pass and White can then move.
PassLine ==
    << Mv(4, 2), Mv(5, 2), Mv(6, 2), Mv(6, 1), Mv(2, 4), Mv(7, 2), Mv(7, 0),
       Gb(5, 2), Mv(5, 0), Ps >>
\* The same line up to the move that flips two disks.
GiveBackLine == SubSeq(PassLine, 1, 7)
\* Six moves that bring disks to the top edge.
EdgeLine == << Mv(2, 4), Mv(2, 3), Mv(1, 2), Mv(1, 3), Mv(0, 2), Mv(0, 1) >>

\* Thirteen calls after which neither colour can place a disk, with both
\* colours on the board and 51 cells empty.
OverLine ==
    << Mv(3, 5), Mv(4, 5), Mv(5, 5), Gb(4, 4), Mv(2, 2), Mv(1, 1), Gb(2, 2),
       Mv(0, 0), Mv(5, 2), Mv(6, 6), Gb(3, 3), Mv(7, 7), Gb(6, 6) >>

Openings == {<<>>, PassLine, GiveBackLine, EdgeLine, OverLine}

\* ------------------------------------------------------------ Init
\* No search has run yet.
NoSearch ==
    [called |-> FALSE, tick |-> 0, order |-> "kept", calls |-> 0, timeouts |-> 0,
     hits |-> {}, handed |-> 0, strays |-> 0, scores |-> <<>>,
     limits |-> {}, overdue |-> 0, frames |-> {}, forced |-> 0, cutoffs |-> {},
     value |-> 0, fresh |-> FALSE]

\* A new process and a new game, the caller set to play one of the lines or to
\* sort one of the lists.
Constructed(lines, lists) ==
    /\ board = InitBoard
    /\ current_player = BLACK
    /\ give_back_mode = FALSE
    /\ flipped_positions = <<>>
    /\ consecutive_passes = 0
    /\ move_history = <<>>
    /\ move_times = [p \in {BLACK, WHITE} |-> <<>>]
    /\ last_move = None
    /\ last_give_back = None
    /\ op = "__init__"
    /\ ret = "None"
    /\ move_flips = <<>>
    /\ gave_back = FALSE
    /\ script \in lines
    /\ free = 0
    /\ position_cache = [key \in {} |-> key]
    /\ best_move = None
    /\ search = NoSearch
    /\ unsorted_moves \in lists
    /\ sorted_moves = <<>>

\* OthelloGame(player_mode="friend", player_color=1) with no window on it.
StartedWith(lines, lists) ==
    /\ Constructed(lines, lists)
    /\ pc = "off"
    /\ player_mode = "friend"
    /\ gui_player_color = BLACK
    /\ events = <<>>
    /\ pending = <<>>

\* No list is given to sort_moves other than by the search itself.
Started(lines) == StartedWith(lines, {<<>>})

Init == Started(Openings)

\* ------------------------------------------------------------ make_move
make_move(row, col, execution_time) ==
    /\ Issued(<<"make_move", row, col, execution_time>>)
    /\ op' = "make_move"
    /\ UNCHANGED agent
    /\ LET valid == IF give_back_mode THEN "False"
                    ELSE is_valid_move(board, current_player, give_back_mode, row, col)
       IN  IF valid = "True"
           THEN LET ms == Elapsed(execution_time)
                    placed == Placed(board, current_player, row, col)
                    done == flip_disks(placed, current_player, row, col)
                IN  /\ last_move' = <<row, col>>
                    /\ last_give_back' = None
                    /\ move_times' = [move_times EXCEPT
                                         ![current_player] = Append(@, ms)]
                    /\ move_history' = Append(move_history,
                                              move_record(current_player, row, col, ms))
                    /\ board' = done.board
                    /\ flipped_positions' = done.flipped
                    /\ IF NeedsGiveBack(done.flipped)
                       THEN give_back_mode' = TRUE /\ UNCHANGED current_player
                       ELSE current_player' = Switched(current_player)
                            /\ UNCHANGED give_back_mode
                    /\ UNCHANGED consecutive_passes
                    /\ move_flips' = done.flipped
                    /\ gave_back' = FALSE
                    /\ ret' = "True"
                    /\ Advance(TRUE)
           ELSE /\ ret' = valid
                /\ UNCHANGED <<game, move_flips, gave_back>>
                /\ Advance(FALSE)

\* ------------------------------------------------------------ give_back_disk
give_back_disk(row, col, execution_time) ==
    /\ Issued(<<"give_back_disk", row, col, execution_time>>)
    /\ op' = "give_back_disk"
    /\ UNCHANGED agent
    /\ IF give_back_mode /\ InFlipped(row, col, flipped_positions)
       THEN LET ms == Elapsed(execution_time)
            IN  /\ last_give_back' = <<row, col>>
                /\ move_times' = [move_times EXCEPT ![current_player] = Append(@, ms)]
                /\ move_history' = Append(move_history,
                                          give_back_record(current_player, row, col, ms))
                /\ board' = GivenBack(board, current_player, row, col)
                /\ give_back_mode' = FALSE
                /\ flipped_positions' = <<>>
                /\ current_player' = Switched(current_player)
                /\ UNCHANGED <<consecutive_passes, last_move, move_flips>>
                /\ gave_back' = TRUE
                /\ ret' = "True"
                /\ Advance(TRUE)
       ELSE /\ ret' = "False"
            /\ UNCHANGED <<game, move_flips, gave_back>>
            /\ Advance(FALSE)

\* ------------------------------------------------------------ pass_turn
\* Mutant: the give-back phase is not tested.
PassRefused_NoPhaseTest(b, cp, gbm) == has_valid_moves(b, cp, gbm)

\* Mutant: the search for a valid move is left out.
PassRefused_NoMoveTest(b, cp, gbm) == gbm

\* Mutant: a pass is always refused.
PassRefused_Always(b, cp, gbm) == TRUE

\* if self.give_back_mode or self.has_valid_moves(): return False
PassRefused(b, cp, gbm) == gbm \/ has_valid_moves(b, cp, gbm)

\* Mutant: a pass is not counted.
Passed_NotCounted(passes) == passes

\* self.consecutive_passes += 1
Passed(passes) == passes + 1

pass_turn(execution_time) ==
    /\ Issued(<<"pass_turn", execution_time>>)
    /\ op' = "pass_turn"
    /\ UNCHANGED agent
    /\ IF PassRefused(board, current_player, give_back_mode)
       THEN /\ ret' = "False"
            /\ UNCHANGED <<game, move_flips, gave_back>>
            /\ Advance(FALSE)
       ELSE LET ms == Elapsed(execution_time)
            IN  /\ move_times' = [move_times EXCEPT ![current_player] = Append(@, ms)]
                /\ move_history' = Append(move_history, pass_record(current_player, ms))
                /\ last_move' = PassMark
                /\ last_give_back' = None
                /\ consecutive_passes' = Passed(consecutive_passes)
                /\ current_player' = Switched(current_player)
                /\ UNCHANGED <<board, give_back_mode, flipped_positions,
                               move_flips, gave_back>>
                /\ ret' = "True"
                /\ Advance(TRUE)

\* ------------------------------------------------------------ is_game_over
\* get_give_back_options returns the list make_move stored, whatever the phase.
get_give_back_options(flipped) == flipped

BoardFull(b) == \A r \in Index : \A c \in Index : b[r][c] # 0

\* Mutant: the test of give_back_mode is missing.
game_over_NoPhaseTest(b, cp, gbm, passes) ==
    IF passes >= PASS_CEILING THEN [value |-> TRUE, player |-> cp]
    ELSE IF BoardFull(b) THEN [value |-> TRUE, player |-> cp]
    ELSE LET current_has_moves == has_valid_moves(b, cp, gbm)
             other == Switched(cp)
             opponent_has_moves == has_valid_moves(b, other, gbm)
         IN  [value |-> ~(current_has_moves \/ opponent_has_moves),
              player |-> Switched(other)]

\* Mutant: the second self.current_player *= -1 is missing.
game_over_NotRestored(b, cp, gbm, passes) ==
    IF gbm THEN [value |-> FALSE, player |-> cp]
    ELSE IF passes >= PASS_CEILING THEN [value |-> TRUE, player |-> cp]
    ELSE IF BoardFull(b) THEN [value |-> TRUE, player |-> cp]
    ELSE LET current_has_moves == has_valid_moves(b, cp, gbm)
             other == Switched(cp)
             opponent_has_moves == has_valid_moves(b, other, gbm)
         IN  [value |-> ~(current_has_moves \/ opponent_has_moves), player |-> other]

\* The value returned, and current_player as the call leaves it.
game_over(b, cp, gbm, passes) ==
    IF gbm THEN [value |-> FALSE, player |-> cp]
    ELSE IF passes >= PASS_CEILING THEN [value |-> TRUE, player |-> cp]
    ELSE IF BoardFull(b) THEN [value |-> TRUE, player |-> cp]
    ELSE LET current_has_moves == has_valid_moves(b, cp, gbm)
             other == Switched(cp)
             opponent_has_moves == has_valid_moves(b, other, gbm)
         IN  [value |-> ~(current_has_moves \/ opponent_has_moves),
              player |-> Switched(other)]

is_game_over ==
    /\ Issued(<<"is_game_over">>)
    /\ op' = "is_game_over"
    /\ UNCHANGED agent
    /\ LET over == game_over(board, current_player, give_back_mode, consecutive_passes)
       IN  /\ ret' = IF over.value THEN "True" ELSE "False"
           /\ current_player' = over.player
    /\ UNCHANGED <<board, give_back_mode, flipped_positions, consecutive_passes,
                   move_history, move_times, last_move, last_give_back,
                   move_flips, gave_back>>
    /\ Advance(FALSE)

\* ------------------------------------------------------------ specification
Next ==
    \/ \E row \in Coords, col \in Coords, t \in ExecTimes : make_move(row, col, t)
    \/ \E row \in Coords, col \in Coords, t \in ExecTimes : give_back_disk(row, col, t)
    \/ \E t \in ExecTimes : pass_turn(t)
    \/ is_game_over

Spec == Init /\ [][Next]_vars

\* ================================================================ properties
\* The rules of the game stated on the board alone, without the engine's loops.

\* In direction d the k cells next to (row, col) hold the opponent's colour and
\* the cell after them, on the board, holds the mover's.
BracketAt(b, cp, row, col, d, k) ==
    /\ \A i \in 1 .. k :
          InRange(row + i * d[1], col + i * d[2])
          /\ b[row + i * d[1]][col + i * d[2]] = 0 - cp
    /\ InRange(row + (k + 1) * d[1], col + (k + 1) * d[2])
    /\ b[row + (k + 1) * d[1]][col + (k + 1) * d[2]] = cp

\* The length of the bracketed run of direction d, 0 when there is none (a run
\* starts with an opponent disk next to the cell, and at most one length fits).
BracketLen(b, cp, row, col, d) ==
    IF ~(InRange(row + d[1], col + d[2]) /\ b[row + d[1]][col + d[2]] = 0 - cp) THEN 0
    ELSE IF \E k \in 1 .. SIZE : BracketAt(b, cp, row, col, d, k)
    THEN CHOOSE k \in 1 .. SIZE : BracketAt(b, cp, row, col, d, k)
    ELSE 0

\* The bracketed run of direction d, nearest cell first.
BracketedRun(b, cp, row, col, d) ==
    [i \in 1 .. BracketLen(b, cp, row, col, d) |-> <<row + i * d[1], col + i * d[2]>>]

\* The bracketed runs of the eight directions, direction by direction.
BracketedRuns(b, cp, row, col) ==
    LET R(i) == BracketedRun(b, cp, row, col, directions[i])
    IN  R(1) \o R(2) \o R(3) \o R(4) \o R(5) \o R(6) \o R(7) \o R(8)

\* The player cp can place a disk somewhere on b.
CanPlace(b, cp) ==
    \E r \in Index : \E c \in Index :
        b[r][c] = EMPTY /\ BracketedRuns(b, cp, r, c) # <<>>

Range(seq) == {seq[k] : k \in 1 .. Len(seq)}
Count(b, colour) == Cardinality({p \in Index \X Index : b[p[1]][p[2]] = colour})
DiskCount(b) == Count(b, BLACK) + Count(b, WHITE)

Succeeded(name) == op' = name /\ ret' = "True"

\* C1: give_back_mode is true exactly when the most recent successful make_move
\* flipped two or more disks and no give_back_disk has succeeded since; and then
\* flipped_positions is non-empty, is the list that move flipped, and every cell
\* of it holds the current player's colour.
C1_GiveBackModeTracksLastMove ==
    /\ give_back_mode <=> (Len(move_flips) >= 2 /\ ~gave_back)
    /\ give_back_mode =>
          /\ flipped_positions # <<>>
          /\ flipped_positions = move_flips
          /\ \A p \in Range(flipped_positions) : board[p[1]][p[2]] = current_player

C1_Witness ==
    /\ give_back_mode
    /\ op = "give_back_disk" /\ ret = "False"
    /\ Len(flipped_positions) >= 2

\* C2: current_player changes exactly in a successful make_move that flipped
\* fewer than two disks, a successful pass_turn and a successful give_back_disk,
\* and then to the other colour; from a state in give-back mode no call but a
\* successful give_back_disk changes it or ends the mode.
C2_PlayerSwitchesOncePerCycle ==
    [][ /\ ( \/ (Succeeded("make_move") /\ Len(move_flips') < 2)
             \/ Succeeded("pass_turn")
             \/ Succeeded("give_back_disk") )
           => current_player' = 0 - current_player
        /\ ~( \/ (Succeeded("make_move") /\ Len(move_flips') < 2)
              \/ Succeeded("pass_turn")
              \/ Succeeded("give_back_disk") )
           => current_player' = current_player
        /\ (give_back_mode /\ ~Succeeded("give_back_disk"))
           => (current_player' = current_player /\ give_back_mode')
      ]_vars

C2_Witness ==
    /\ give_back_mode
    /\ op = "is_game_over" /\ ret = "False"
    /\ current_player = BLACK
    /\ Len(move_flips) >= 2

\* C3: a successful make_move raises the number of disks on the board by one;
\* no other call changes it.
C3_DiskTotalGrowsByOnePerMove ==
    [][ DiskCount(board') =
            IF Succeeded("make_move") THEN DiskCount(board) + 1 ELSE DiskCount(board)
      ]_vars

C3_Witness ==
    /\ op = "make_move" /\ ret = "True"
    /\ Len(move_flips) >= 2
    /\ DiskCount(board) = 4 + Cardinality({k \in 1 .. Len(move_history) :
                                              Len(move_history[k]) = 4})

\* C4: a successful give_back_disk(row, col) changes one cell, a member of
\* flipped_positions, from the mover's colour to the opponent's (the mover has one
\* disk fewer, the opponent one more); afterwards give_back_mode is false,
\* flipped_positions is empty and current_player is the opponent.
C4_GiveBackReturnsOnePendingDisk ==
    [][ Succeeded("give_back_disk") =>
          LET p == last_give_back'
          IN  /\ give_back_mode
              /\ p \in Range(flipped_positions)
              /\ board[p[1]][p[2]] = current_player
              /\ board'[p[1]][p[2]] = 0 - current_player
              /\ \A q \in Index \X Index :
                    q # p => board'[q[1]][q[2]] = board[q[1]][q[2]]
              /\ Count(board', current_player) = Count(board, current_player) - 1
              /\ Count(board', 0 - current_player) = Count(board, 0 - current_player) + 1
              /\ ~give_back_mode'
              /\ flipped_positions' = <<>>
              /\ current_player' = 0 - current_player
      ]_vars

C4_Witness ==
    /\ op = "give_back_disk" /\ ret = "True"
    /\ ~give_back_mode
    /\ flipped_positions = <<>>
    /\ board[last_give_back[1]][last_give_back[2]] = current_player

\* C5: a call that returns False leaves the whole game state unchanged, and the
\* rejected calls do return False: make_move succeeds only outside give-back mode
\* on an empty cell with a bracketed run, give_back_disk only in give-back mode at
\* a cell of flipped_positions, pass_turn only outside give-back mode when the
\* current player cannot place a disk; and no call with a cell of the board raises.
C5_RejectedCallsChangeNothing ==
    /\ [](\A r \in Index : \A c \in Index :
            is_valid_move(board, current_player, give_back_mode, r, c) # "IndexError")
    /\ [][ /\ ret' \in {"True", "False", "IndexError"}
           /\ ret' # "True" => UNCHANGED game
           /\ ret' = "IndexError" => op' = "make_move"
           /\ Succeeded("make_move") =>
                 /\ ~give_back_mode
                 /\ board[PyIndex(last_move'[1])][PyIndex(last_move'[2])] = EMPTY
                 /\ BracketedRuns(board, current_player, last_move'[1], last_move'[2]) # <<>>
           /\ Succeeded("give_back_disk") =>
                 /\ give_back_mode
                 /\ last_give_back' \in Range(flipped_positions)
           /\ Succeeded("pass_turn") =>
                 /\ ~give_back_mode
                 /\ ~CanPlace(board, current_player)
         ]_vars

C5_Witness ==
    /\ op = "pass_turn" /\ ret = "False"
    /\ give_back_mode
    /\ Len(move_history) = 7

\* C6 as stated: for every cell of the board, is_valid_move is true exactly when
\* get_flippable_disks returns a non-empty list.
C6_ValidIffFlippable ==
    \A r \in Index : \A c \in Index :
        (is_valid_move(board, current_player, give_back_mode, r, c) = "True")
        <=> (get_flippable_disks(board, current_player, r, c) # <<>>)

\* C6 amended: outside give-back mode and for every EMPTY cell of the board,
\* is_valid_move is true exactly when get_flippable_disks returns a non-empty
\* list, for either colour to move; the list is then the list of bracketed runs.
C6_ValidIffFlippableOnEmptyCells ==
    \A cp \in {BLACK, WHITE} : \A r \in Index : \A c \in Index :
        board[r][c] = EMPTY =>
            LET flippable == get_flippable_disks(board, cp, r, c)
            IN  /\ (is_valid_move(board, cp, FALSE, r, c) = "True") <=> (flippable # <<>>)
                /\ (cp = current_player /\ ~give_back_mode) =>
                      ((is_valid_move(board, cp, give_back_mode, r, c) = "True")
                       <=> (flippable # <<>>))
                /\ flippable = BracketedRuns(board, cp, r, c)

C6_Witness ==
    /\ ~give_back_mode
    /\ Len(move_history) >= 2
    /\ \E r \in Index : \E c \in Index :
          /\ board[r][c] = EMPTY
          /\ is_valid_move(board, current_player, give_back_mode, r, c) = "True"
          /\ Len(get_flippable_disks(board, current_player, r, c)) >= 2
    /\ \E r \in Index : \E c \in Index :
          /\ board[r][c] # EMPTY
          /\ get_flippable_disks(board, current_player, r, c) # <<>>

\* C7: in a successful make_move(row, col) the flipped cells are the bracketed
\* runs of the eight directions, direction by direction and nearest cell first;
\* the board changes at (row, col) and at those cells only, and all of them take
\* the mover's colour.
C7_MoveFlipsTheBracketedRuns ==
    [][ Succeeded("make_move") =>
          LET row == last_move'[1]
              col == last_move'[2]
              runs == BracketedRuns(board, current_player, row, col)
          IN  /\ flipped_positions' = runs
              /\ \A r \in Index : \A c \in Index :
                    board'[r][c] =
                        IF <<r, c>> = <<row, col>> \/ <<r, c>> \in Range(runs)
                        THEN current_player
                        ELSE board[r][c]
      ]_vars

\* C8: make_move with a row or a column outside 0..7 is rejected: no successful
\* make_move has such coordinates.
C8_OutOfRangeMoveRejected ==
    (op = "make_move" /\ ret = "True") => InRange(last_move[1], last_move[2])

\* C9 as stated: at the start position get_valid_moves() returns the cells
\* (2,3), (3,2), (4,5) and (5,4).
C9_StartMovesAsStated ==
    op = "__init__" =>
        Range(get_valid_moves(board, current_player, give_back_mode))
            = {<<2, 3>>, <<3, 2>>, <<4, 5>>, <<5, 4>>}

\* C9 amended: the state after construction has Black at (3,3) and (4,4), White
\* at (3,4) and (4,3) and Black to move, and get_valid_moves() returns there
\* (2,4), (3,5), (4,2), (5,3), in this order.
C9_StartMoves ==
    op = "__init__" =>
        /\ \A r \in Index : \A c \in Index :
              board[r][c] = IF <<r, c>> \in {<<3, 3>>, <<4, 4>>} THEN BLACK
                            ELSE IF <<r, c>> \in {<<3, 4>>, <<4, 3>>} THEN WHITE
                            ELSE EMPTY
        /\ current_player = BLACK
        /\ get_valid_moves(board, current_player, give_back_mode)
              = << <<2, 4>>, <<3, 5>>, <<4, 2>>, <<5, 3>> >>

C9_Witness ==
    /\ op = "__init__"
    /\ board[3][3] = BLACK /\ board[3][4] = WHITE
    /\ Len(get_valid_moves(board, current_player, give_back_mode)) = 4

\* C10: pass_turn succeeds exactly when the game is not in give-back mode and
\* the current player cannot place a disk; it then adds one to
\* consecutive_passes, switches current_player and leaves the board unchanged; a
\* pass_turn right after a successful one fails when the new current player can
\* place a disk.
C10_PassOnlyWithoutMoves ==
    [][ op' = "pass_turn" =>
          /\ (ret' = "True") <=> (~give_back_mode /\ ~CanPlace(board, current_player))
          /\ ret' = "True" =>
                /\ consecutive_passes' = consecutive_passes + 1
                /\ current_player' = 0 - current_player
                /\ board' = board
          /\ (op = "pass_turn" /\ ret = "True" /\ CanPlace(board, current_player))
                => ret' = "False"
      ]_vars

C10_Witness ==
    /\ op = "pass_turn" /\ ret = "False"
    /\ last_move = PassMark
    /\ consecutive_passes = 1
    /\ ~give_back_mode
    /\ CanPlace(board, current_player)

C12_NoPendingFlipsOutsideGiveBack ==
    ~give_back_mode => get_give_back_options(flipped_positions) = <<>>

\* C13: get_valid_moves() lists, in row-major order and without duplicates,
\* exactly the cells of the board at which is_valid_move holds for the current
\* player; in give-back mode it is empty and has_valid_moves() is False.
C13_ValidMovesRowMajor ==
    LET valid_moves == get_valid_moves(board, current_player, give_back_mode)
    IN  /\ \A i \in 1 .. Len(valid_moves) : \A j \in 1 .. Len(valid_moves) :
              i < j => 8 * valid_moves[i][1] + valid_moves[i][2]
                         < 8 * valid_moves[j][1] + valid_moves[j][2]
        /\ Range(valid_moves)
              = {p \in (0 .. 7) \X (0 .. 7) :
                    is_valid_move(board, current_player, give_back_mode, p[1], p[2]) = "True"}
        /\ has_valid_moves(board, current_player, give_back_mode)
              <=> (~give_back_mode /\ CanPlace(board, current_player))
        /\ give_back_mode =>
              /\ valid_moves = <<>>
              /\ ~has_valid_moves(board, current_player, give_back_mode)

C13_Witness ==
    /\ ~give_back_mode
    /\ LET valid_moves == get_valid_moves(board, current_player, give_back_mode)
       IN  /\ Len(valid_moves) >= 3
           /\ valid_moves[1][1] < valid_moves[2][1]
           /\ valid_moves[2][2] > valid_moves[3][2]
    /\ op = "give_back_disk" /\ ret = "True"

\* Reading a logged position back: the cell whose letter and number these are
\* under the format make_move and give_back_disk write.
Decoded(letter, number) == <<letter - 65, number - 1>>

\* One record of the history played on a game: a placement has four fields, a
\* give-back five (the second is "gave back at"), a pass three.
Replayed(g, record) ==
    IF Len(record) = 4
    THEN LET cell == Decoded(record[2], record[3])
         IN  IF is_valid_move(g.board, g.current_player, g.give_back_mode,
                              cell[1], cell[2]) # "True"
             THEN [g EXCEPT !.ok = FALSE]
             ELSE LET done == flip_disks(Placed(g.board, g.current_player, cell[1], cell[2]),
                                         g.current_player, cell[1], cell[2])
                  IN  [board |-> done.board,
                       current_player |-> IF Len(done.flipped) >= 2 THEN g.current_player
                                          ELSE 0 - g.current_player,
                       give_back_mode |-> Len(done.flipped) >= 2,
                       flipped_positions |-> done.flipped,
                       ok |-> g.ok /\ record[1] = player_color(g.current_player)]
    ELSE IF Len(record) = 5
    THEN LET cell == Decoded(record[3], record[4])
         IN  IF ~(g.give_back_mode /\ cell \in Range(g.flipped_positions))
             THEN [g EXCEPT !.ok = FALSE]
             ELSE [board |-> [g.board EXCEPT ![cell[1]][cell[2]] = 0 - g.current_player],
                   current_player |-> 0 - g.current_player,
                   give_back_mode |-> FALSE,
                   flipped_positions |-> <<>>,
                   ok |-> g.ok /\ record[1] = player_color(g.current_player)]
    ELSE IF g.give_back_mode \/ has_valid_moves(g.board, g.current_player, g.give_back_mode)
         THEN [g EXCEPT !.ok = FALSE]
         ELSE [g EXCEPT !.current_player = 0 - g.current_player,
                        !.ok = g.ok /\ record[1] = player_color(g.current_player)]

RECURSIVE Replay(_, _, _)
Replay(g, history, k) ==
    IF k > Len(history) THEN g ELSE Replay(Replayed(g, history[k]), history, k + 1)

FreshGame ==
    [board |-> InitBoard, current_player |-> BLACK, give_back_mode |-> FALSE,
     flipped_positions |-> <<>>, ok |-> TRUE]

\* C17: playing the records of move_history, in order and with each position
\* read back by the inverse of the format it was written in, on a new game
\* succeeds at every record and ends on the board and the side to move of the
\* game that wrote the history.
C17_HistoryReplaysToTheSameGame ==
    LET g == Replay(FreshGame, move_history, 1)
    IN  /\ g.ok
        /\ g.board = board
        /\ g.current_player = current_player

C17_Witness ==
    /\ Len(move_history) >= 10
    /\ \E k \in 1 .. Len(move_history) : Len(move_history[k]) = 5
    /\ \E k \in 1 .. Len(move_history) : Len(move_history[k]) = 3
    /\ \E k \in 1 .. Len(move_history) :
          Len(move_history[k]) = 4 /\ move_history[k][2] - 65 # move_history[k][3] - 1
    /\ Replay(FreshGame, move_history, 1).board = board

\* C18: the position logged for a move at (row, col) has the letter 'A' + col
\* and the number row + 1: column letter, then row number.
C18_ColumnLetterRowNumber ==
    (op = "make_move" /\ ret = "True") =>
        LET record == move_history[Len(move_history)]
        IN  /\ record[2] = 65 + last_move[2]
            /\ record[3] = last_move[1] + 1

\* ================================================================ search agent
\* ai_agent.py. A node of the search is a board and the colour to move on it.

\* corners and edges, as sort_moves and simple_give_back list them
IsCorner(p) == p \in {<<0, 0>>, <<0, 7>>, <<7, 0>>, <<7, 7>>}
\* Mutant: only the top and bottom rows count as edges.
IsEdge_RowsOnly(p) == p[1] \in {0, 7} /\ p[2] \in 1 .. 6

IsEdge(p) ==
    \/ (p[1] \in {0, 7} /\ p[2] \in 1 .. 6)
    \/ (p[1] \in 1 .. 6 /\ p[2] \in {0, 7})

\* for fr, fc in flip_list: board[fr][fc] = player
RECURSIVE SimRecolour(_, _, _, _)
SimRecolour(b, player, flip_list, k) ==
    IF k > Len(flip_list) THEN b
    ELSE SimRecolour([b EXCEPT ![flip_list[k][1]][flip_list[k][2]] = player],
                     player, flip_list, k + 1)

SimRecoloured(b, player, flip_list) == SimRecolour(b, player, flip_list, 1)

\* Mutant: a run that reaches the rim of the board is flipped as well.
RECURSIVE SimScan_NoBracket(_, _, _, _, _, _, _, _)
SimScan_NoBracket(b, player, r, c, dr, dc, flip_list, taken) ==
    IF InRange(r, c) /\ b[r][c] = 0 - player
    THEN LET longer == Append(flip_list, <<r, c>>)
         IN  IF ~InRange(r + dr, c + dc) \/ b[r + dr][c + dc] = player
             THEN [board |-> SimRecoloured(b, player, longer), taken |-> taken \o longer]
             ELSE SimScan_NoBracket(b, player, r + dr, c + dc, dr, dc, longer, taken)
    ELSE [board |-> b, taken |-> taken]

\* The while loop of simulate_move for one direction, from the test of its
\* condition at (r, c): a step appends the cell, moves on and, when the next cell
\* is the player's, extends flipped and recolours the run; the loop then goes on
\* to test its condition again.
RECURSIVE SimScan(_, _, _, _, _, _, _, _)
SimScan(b, player, r, c, dr, dc, flip_list, taken) ==
    IF InRange(r, c) /\ b[r][c] = 0 - player
    THEN LET longer == Append(flip_list, <<r, c>>)
         IN  IF InRange(r + dr, c + dc) /\ b[r + dr][c + dc] = player
             THEN SimScan(SimRecoloured(b, player, longer), player, r + dr, c + dc,
                          dr, dc, longer, taken \o longer)
             ELSE SimScan(b, player, r + dr, c + dc, dr, dc, longer, taken)
    ELSE [board |-> b, taken |-> taken]

\* for dr, dc in directions, from the i-th direction on
RECURSIVE SimFrom(_, _, _, _, _, _)
SimFrom(b, player, row, col, i, flipped) ==
    IF i > Len(directions) THEN [board |-> b, flipped |-> flipped]
    ELSE LET dr == directions[i][1]
             dc == directions[i][2]
             scan == SimScan(b, player, row + dr, col + dc, dr, dc, <<>>, <<>>)
         IN  SimFrom(scan.board, player, row, col, i + 1, flipped \o scan.taken)

\* simulate_move(board, row, col, player): (success, flipped), and the board as
\* the call leaves it
simulate_move(b, row, col, player) ==
    IF b[row][col] # 0 THEN [is_valid |-> FALSE, flipped |-> <<>>, board |-> b]
    ELSE LET done == SimFrom(b, player, row, col, 1, <<>>)
         IN  IF done.flipped # <<>>
             THEN [is_valid |-> TRUE, flipped |-> done.flipped,
                   board |-> [done.board EXCEPT ![row][col] = player]]
             ELSE [is_valid |-> FALSE, flipped |-> <<>>, board |-> done.board]

\* simple_give_back(board, flipped_positions): the first corner, else the first
\* edge cell, else the first position
simple_give_back(flipped) ==
    LET in_corners == SelectSeq(flipped, IsCorner)
        in_edges == SelectSeq(flipped, IsEdge)
    IN  IF in_corners # <<>> THEN in_corners[1]
        ELSE IF in_edges # <<>> THEN in_edges[1]
        ELSE flipped[1]

\* The child alphabeta builds for a move that simulate_move accepted: the disk
\* of simple_give_back handed back when two or more were flipped, then the
\* other colour to move.
Successor(sim, player) ==
    [board |-> IF Len(sim.flipped) >= GIVE_BACK_MIN
               THEN LET give_back_pos == simple_give_back(sim.flipped)
                    IN  [sim.board EXCEPT ![give_back_pos[1]][give_back_pos[2]] = 0 - player]
               ELSE sim.board,
     player |-> 0 - player]

\* What make_move does to the board b when colour p is to move in the normal phase
Moved(b, p, row, col) == flip_disks(Placed(b, p, row, col), p, row, col)

\* The simulation of colour p placing a disk on (row, col) of b agrees with the
\* rules engine: simulate_move succeeds exactly when is_valid_move holds, its
\* flipped list and board are those of make_move, and the successor built from
\* it is the position after make_move and, when 2 or more disks were flipped,
\* give_back_disk at one of the pending positions, the other colour to move.
Refines(b, p, row, col) ==
    LET sim == simulate_move(b, row, col, p)
        done == Moved(b, p, row, col)
        child == Successor(sim, p)
    IN  /\ sim.is_valid <=> (is_valid_move(b, p, FALSE, row, col) = "True")
        /\ sim.is_valid =>
               /\ sim.flipped = done.flipped
               /\ sim.board = done.board
               /\ child.player = Switched(p)
               /\ IF NeedsGiveBack(done.flipped)
                  THEN \E k \in 1 .. Len(done.flipped) :
                           child.board = GivenBack(done.board, p, done.flipped[k][1],
                                                   done.flipped[k][2])
                  ELSE child.board = done.board

\* ------------------------------------------------------------ evaluation
\* float("inf")
INF == 1000000

CornerCount(b, colour) ==
    Cardinality({p \in {<<0, 0>>, <<0, 7>>, <<7, 0>>, <<7, 7>>} : b[p[1]][p[2]] = colour})

\* quick_evaluate(game)
quick_evaluate(b, cp) ==
    (Count(b, cp) - Count(b, 0 - cp)) + 10 * (CornerCount(b, cp) - CornerCount(b, 0 - cp))

\* OthelloGame.get_winner
get_winner(b) ==
    IF Count(b, 1) > Count(b, 0 - 1) THEN 1
    ELSE IF Count(b, 1) < Count(b, 0 - 1) THEN 0 - 1
    ELSE 0

early_game_evaluation(b, cp) ==
    Len(get_valid_moves(b, cp, FALSE)) * 2
        + (CornerCount(b, cp) - CornerCount(b, 0 - cp)) * 25

mid_game_evaluation(b, cp) ==
    (Count(b, cp) - Count(b, 0 - cp))
        + (CornerCount(b, cp) - CornerCount(b, 0 - cp)) * 25
        + Len(get_valid_moves(b, cp, FALSE)) * 2

late_game_evaluation(b, cp) == Count(b, cp) - Count(b, 0 - cp)

\* Mutant: a board of 50 disks still counts as the middle game.
evaluate_game_state_MidAtFifty(b, cp, passes) ==
    IF game_over(b, cp, FALSE, passes).value
    THEN LET winner == get_winner(b)
         IN  IF winner = cp THEN 10000
             ELSE IF winner = 0 - cp THEN 0 - 10000
             ELSE 0
    ELSE LET total_disks == Count(b, 1) + Count(b, 0 - 1)
         IN  IF total_disks < 20 THEN early_game_evaluation(b, cp)
             ELSE IF total_disks <= 50 THEN mid_game_evaluation(b, cp)
             ELSE late_game_evaluation(b, cp)

\* evaluate_game_state(game): always for the colour to move in the node
evaluate_game_state(b, cp, passes) ==
    IF game_over(b, cp, FALSE, passes).value
    THEN LET winner == get_winner(b)
         IN  IF winner = cp THEN 10000
             ELSE IF winner = 0 - cp THEN 0 - 10000
             ELSE 0
    ELSE LET total_disks == Count(b, 1) + Count(b, 0 - 1)
         IN  IF total_disks < 20 THEN early_game_evaluation(b, cp)
             ELSE IF total_disks < 50 THEN mid_game_evaluation(b, cp)
             ELSE late_game_evaluation(b, cp)

\* ------------------------------------------------------------ sort_moves
\* random.shuffle of one group: the order is kept or turned round.
Orders == {"kept", "reversed"}

Shuffled(moves, order) ==
    IF order = "kept" THEN moves
    ELSE [k \in 1 .. Len(moves) |-> moves[Len(moves) + 1 - k]]

IsOther(p) == ~IsCorner(p) /\ ~IsEdge(p)

sort_moves(moves, order) ==
    Shuffled(SelectSeq(moves, IsCorner), order)
        \o Shuffled(SelectSeq(moves, IsEdge), order)
        \o Shuffled(SelectSeq(moves, IsOther), order)

\* random.shuffle(lst): the list in some order
Orderings(n) ==
    {perm \in [1 .. n -> 1 .. n] : \A i, j \in 1 .. n : perm[i] = perm[j] => i = j}

shuffle(lst) ==
    {[k \in 1 .. Len(lst) |-> lst[perm[k]]] : perm \in Orderings(Len(lst))}

\* Every list a call sort_moves(moves, game) can return: the three groups, each
\* shuffled on its own
sort_moves_results(moves) ==
    {corner_moves \o edge_moves \o other_moves :
        corner_moves \in shuffle(SelectSeq(moves, IsCorner)),
        edge_moves \in shuffle(SelectSeq(moves, IsEdge)),
        other_moves \in shuffle(SelectSeq(moves, IsOther))}

\* sort_moves called on its own: lists of at most MaxMoves cells, two corners, two
\* edge cells and two cells of the interior, in any order and with repetitions.
MaxMoves == 4

MoveCells == {<<0, 0>>, <<7, 7>>, <<0, 3>>, <<4, 7>>, <<2, 3>>, <<5, 4>>}

MoveLists == UNION {[1 .. n -> MoveCells] : n \in 0 .. MaxMoves}

SortInit == StartedWith({<<>>}, MoveLists)

call_sort_moves(result) ==
    /\ op # "sort_moves"
    /\ op' = "sort_moves"
    /\ ret' = "cell"
    /\ sorted_moves' = result
    /\ UNCHANGED <<game, move_flips, gave_back, script, free, position_cache,
                   best_move, search, unsorted_moves, gui>>

SortNext == \E result \in sort_moves_results(unsorted_moves) : call_sort_moves(result)

SortSpec == SortInit /\ [][SortNext]_vars

\* ------------------------------------------------------------ alphabeta
\* The clock: every call of alphabeta takes tick seconds, so the n-th call reads
\* time.time() - start_time as n * tick (the first call, n = 0, as 0).
Ticks == {0, 5, 20, 51}

\* time_limit=50.0, the default of alphabeta, and the 20.0 get_best_give_back passes
TIME_LIMIT == 50
GIVE_BACK_TIME_LIMIT == 20

\* Mutant: the clock is read after the tick of the call itself, the root included.
TimedOut_FromTheCall(s, time_limit) == (s.calls + 1) * s.tick > time_limit

\* if time.time() - start_time > time_limit
TimedOut(s, time_limit) == s.calls * s.tick > time_limit

\* cache_key = (board_hash, max_depth, maximizing_player), the hash taken as the
\* board itself
cache_key(b, max_depth, maximizing_player) == <<b, max_depth, maximizing_player>>

\* What a search carries along: the cache, and what the calls made so far did.
\* s.hits keeps the cache hits of a node whose colour to move is not the colour
\* that was to move in the node that wrote the entry; s.handed counts the
\* successors built with a disk handed back, s.strays the moves of a loop whose
\* simulation does not agree with the rules engine.
Simulated(s, b, cp, move, sim) ==
    [s EXCEPT !.handed = s.handed + IF sim.is_valid /\ Len(sim.flipped) >= GIVE_BACK_MIN
                                    THEN 1 ELSE 0,
              !.strays = s.strays + IF Refines(b, cp, move[1], move[2]) THEN 0 ELSE 1]

Cached(s, key, cp) ==
    LET entry == s.cache[key]
    IN  [s EXCEPT !.hits = IF entry.by = cp THEN @
                           ELSE @ \cup {[depth |-> key[2], reader |-> cp,
                                         writer |-> entry.by, at |-> s.calls]}]

Stored(s, key, value, move, cp) ==
    [s EXCEPT !.cache = (key :> [value |-> value, move |-> move, by |-> cp]) @@ @]

\* A call of alphabeta is entered: one more call, and for the record the
\* time_limit it tests the clock against (s.limits) and whether it goes on
\* although the limit of the root of the search, s.root_limit, has run out
\* (s.overdue), and the number of calls it is nested in with the max_depth it
\* was given (s.frames).
Entered(s, max_depth, time_limit) ==
    [s EXCEPT !.calls = s.calls + 1,
              !.frames = s.frames \cup {<<s.level, max_depth>>},
              !.limits = s.limits \cup {time_limit},
              !.overdue = s.overdue + IF ~TimedOut(s, time_limit) /\ TimedOut(s, s.root_limit)
                                      THEN 1 ELSE 0]

\* The value a cut-off of this kind has when it is computed for the colour root.
ForRoot(kind, b, root, passes) ==
    IF kind = "timeout" THEN quick_evaluate(b, root) ELSE evaluate_game_state(b, root, passes)

\* What is kept of one cut-off: its kind, whether the colour to move in the node
\* is the colour to move at the root of the search (own) and whether the node is
\* an odd number of calls below it (odd), whether the value returned is the value
\* for the root's colour (as_root), and of a finished game who has won it, seen
\* from the root's colour, and the value returned.
Leaf(kind, b, cp, passes, value, root, level) ==
    [kind |-> kind, own |-> cp = root, odd |-> level % 2 = 1,
     as_root |-> cp = root \/ value = ForRoot(kind, b, root, passes),
     outcome |-> IF kind # "terminal" THEN "open"
                 ELSE IF get_winner(b) = root THEN "won"
                 ELSE IF get_winner(b) = 0 - root THEN "lost"
                 ELSE "drawn",
     score |-> IF kind = "terminal" THEN value ELSE 0]

\* return quick_evaluate(game), None / return evaluate_game_state(game), None
CutOff(kind, b, cp, passes, value, s) ==
    [value |-> value, move |-> None,
     s |-> [s EXCEPT !.cutoffs = @ \cup {Leaf(kind, b, cp, passes, value, s.root, s.level)}]]

RECURSIVE alphabeta(_, _, _, _, _, _, _, _, _)
RECURSIVE MoveLoop(_, _, _, _, _, _, _, _, _, _, _)

\* The recursive call has returned to its caller.
Back(searched) == [searched EXCEPT !.s.level = searched.s.level - 1]

\* Mutant: a recursive call keeps two plies less to search.
Descend_TwoPlies(child, max_depth, maximizing_player, alpha, beta, s) ==
    Back(alphabeta(child.board, child.player, 0, max_depth - 2, ~maximizing_player,
                   alpha, beta, TIME_LIMIT, [s EXCEPT !.level = s.level + 1]))

\* alphabeta(temp_game, max_depth - 1, not maximizing_player, alpha, beta,
\* start_time): the recursive call, on a new game with the child's board and
\* colour to move, time_limit left to its default
Descend(child, max_depth, maximizing_player, alpha, beta, s) ==
    Back(alphabeta(child.board, child.player, 0, max_depth - 1, ~maximizing_player,
                   alpha, beta, TIME_LIMIT, [s EXCEPT !.level = s.level + 1]))

\* The rest of the loop body once the recursive call has returned: the best value
\* and move, alpha or beta, the cut-off, and the next move
Compared(b, cp, max_depth, maximizing_player, moves, i, best_eval, best, alpha, beta, searched) ==
    LET eval_val == searched.value
        better == IF maximizing_player THEN eval_val > best_eval
                  ELSE eval_val < best_eval
        new_eval == IF better THEN eval_val ELSE best_eval
        new_best == IF better THEN moves[i] ELSE best
        new_alpha == IF maximizing_player /\ eval_val > alpha THEN eval_val ELSE alpha
        new_beta == IF ~maximizing_player /\ eval_val < beta THEN eval_val ELSE beta
    IN  IF new_beta <= new_alpha
        THEN [value |-> new_eval, move |-> new_best, s |-> searched.s]
        ELSE MoveLoop(b, cp, max_depth, maximizing_player, moves, i + 1,
                      new_eval, new_best, new_alpha, new_beta, searched.s)

\* The loop body for the i-th move, simulated as sim: continue when the
\* simulation refused it, else build the child and search it
Tried(b, cp, max_depth, maximizing_player, moves, i, best_eval, best, alpha, beta, s, sim) ==
    IF ~sim.is_valid
    THEN MoveLoop(b, cp, max_depth, maximizing_player, moves, i + 1,
                  best_eval, best, alpha, beta, Simulated(s, b, cp, moves[i], sim))
    ELSE Compared(b, cp, max_depth, maximizing_player, moves, i, best_eval, best,
                  alpha, beta,
                  Descend(Successor(sim, cp), max_depth, maximizing_player, alpha, beta,
                          Simulated(s, b, cp, moves[i], sim)))

\* for move in valid_moves: ... of either branch, from the i-th move on
MoveLoop(b, cp, max_depth, maximizing_player, moves, i, best_eval, best, alpha, beta, s) ==
    IF i > Len(moves) THEN [value |-> best_eval, move |-> best, s |-> s]
    ELSE Tried(b, cp, max_depth, maximizing_player, moves, i, best_eval, best,
               alpha, beta, s, simulate_move(b, moves[i][1], moves[i][2], cp))

\* return eval_val, None of a node without a move
Skipped(passed) == [value |-> passed.value, move |-> None, s |-> passed.s]

\* result = (max_eval, best_move); position_cache[cache_key] = result; return result
Kept(looped, key, cp) ==
    [value |-> looped.value, move |-> looped.move,
     s |-> Stored(looped.s, key, looped.value, looped.move, cp)]

\* A node that passed the cut-off tests and missed the cache, valid_moves its
\* moves: the forced pass, or the loop over the sorted moves
Expanded(b, cp, max_depth, maximizing_player, alpha, beta, s, valid_moves) ==
    IF valid_moves = <<>>
    THEN Skipped(Descend([board |-> b, player |-> Switched(cp)], max_depth,
                         maximizing_player, alpha, beta,
                         [s EXCEPT !.forced = s.forced + 1]))
    ELSE Kept(MoveLoop(b, cp, max_depth, maximizing_player,
                       sort_moves(valid_moves, s.order), 1,
                       IF maximizing_player THEN 0 - INF ELSE INF, None, alpha, beta, s),
              cache_key(b, max_depth, maximizing_player), cp)

\* alphabeta(game, max_depth, maximizing_player, alpha, beta, start_time, time_limit)
\* on the game with this board, colour to move and consecutive_passes, outside
\* give-back mode: (value, move), and the search state as the call leaves it.
alphabeta(b, cp, passes, max_depth, maximizing_player, alpha, beta, time_limit, s) ==
    LET entered == Entered([s EXCEPT !.root = IF s.level = 0 THEN cp ELSE @],
                           max_depth, time_limit)
        key == cache_key(b, max_depth, maximizing_player)
    IN  IF TimedOut(s, time_limit)
        THEN CutOff("timeout", b, cp, passes, quick_evaluate(b, cp),
                    [entered EXCEPT !.timeouts = s.timeouts + 1])
        ELSE IF max_depth = 0 \/ game_over(b, cp, FALSE, passes).value
        THEN CutOff(IF game_over(b, cp, FALSE, passes).value THEN "terminal" ELSE "depth",
                    b, cp, passes, evaluate_game_state(b, cp, passes), entered)
        ELSE IF key \in DOMAIN s.cache
        THEN [value |-> s.cache[key].value, move |-> s.cache[key].move,
              s |-> Cached(entered, key, cp)]
        ELSE Expanded(b, cp, max_depth, maximizing_player, alpha, beta, entered,
                      get_valid_moves(b, cp, FALSE))

\* ------------------------------------------------------------ get_best_give_back
RECURSIVE GiveBackLoop(_, _, _, _, _, _, _, _)

\* if score < best_score: ..., and the next position; scores keeps each score
Scored(b, cp, give_back_options, i, best_score, best_position, scores, searched) ==
    IF searched.value < best_score
    THEN GiveBackLoop(b, cp, give_back_options, i + 1, searched.value,
                      give_back_options[i], searched.s, Append(scores, searched.value))
    ELSE GiveBackLoop(b, cp, give_back_options, i + 1, best_score, best_position,
                      searched.s, Append(scores, searched.value))

\* for pos in give_back_options, from the i-th on: the disk handed back on a
\* copy of the board, the other colour to move, and alphabeta from there
GiveBackLoop(b, cp, give_back_options, i, best_score, best_position, s, scores) ==
    IF i > Len(give_back_options)
    THEN [move |-> best_position, s |-> s, scores |-> scores]
    ELSE Scored(b, cp, give_back_options, i, best_score, best_position, scores,
                alphabeta([b EXCEPT ![give_back_options[i][1]][give_back_options[i][2]]
                                        = 0 - cp],
                          Switched(cp), 0, 6, TRUE, 0 - INF, INF,
                          GIVE_BACK_TIME_LIMIT, s))

\* get_best_give_back(game, max_depth=6), as get_best_move calls it
get_best_give_back(b, cp, give_back_options, s) ==
    IF Len(give_back_options) <= 1
    THEN [move |-> give_back_options[1], s |-> s, scores |-> <<>>]
    ELSE GiveBackLoop(b, cp, give_back_options, 1, INF, give_back_options[1], s, <<>>)

\* ------------------------------------------------------------ get_best_move
\* empty_count = sum(row.count(0) for row in game.board) and the depth chosen
SearchDepth(b) ==
    LET empty_count == Count(b, 0)
    IN  IF empty_count <= 10 THEN 6
        ELSE IF empty_count >= 50 THEN 4
        ELSE 8

\* The caller asks the agent, or starts a new game, only as a line says so.
\* The window asks it whenever its loop comes to the agent's turn.
Asked(call) ==
    IF script # <<>> THEN call = Head(script)
    ELSE pc # "off" /\ call = <<"get_best_move">> /\ free < MaxFree

Best == <<"get_best_move">>
New == <<"__init__">>
Over == <<"is_game_over">>
\* The caller leaves: no call is issued after a line that ends so.
Quit == <<"quit">>

\* _, best_move = alphabeta(game, max_depth, True, -inf, inf, start_time)
MoveSearch(s) ==
    alphabeta(board, current_player, consecutive_passes, SearchDepth(board),
              TRUE, 0 - INF, INF, TIME_LIMIT, s)

\* return best_move: the answer, the cache as the search leaves it, and what the
\* search did
Returned(found, scores, tick, order) ==
    /\ best_move' = found.move
    /\ position_cache' = found.s.cache
    /\ search' = [called |-> TRUE, tick |-> tick, order |-> order,
                  calls |-> found.s.calls, timeouts |-> found.s.timeouts,
                  hits |-> found.s.hits, handed |-> found.s.handed,
                  strays |-> found.s.strays, scores |-> scores,
                  limits |-> found.s.limits, overdue |-> found.s.overdue,
                  frames |-> found.s.frames, forced |-> found.s.forced,
                  cutoffs |-> found.s.cutoffs,
                  value |-> IF "value" \in DOMAIN found THEN found.value ELSE 0,
                  fresh |-> DOMAIN position_cache = {}]
    /\ ret' = IF found.move = None THEN "None" ELSE "cell"

GiveBackReturned(found, tick, order) == Returned(found, found.scores, tick, order)

get_best_move(tick, order) ==
    /\ Asked(Best)
    /\ op' = "get_best_move"
    /\ LET s == [cache |-> position_cache, calls |-> 0, timeouts |-> 0, hits |-> {},
                 handed |-> 0, strays |-> 0, tick |-> tick, order |-> order,
                 root_limit |-> IF give_back_mode THEN GIVE_BACK_TIME_LIMIT ELSE TIME_LIMIT,
                 limits |-> {}, overdue |-> 0, level |-> 0, frames |-> {}, forced |-> 0,
                 root |-> current_player, cutoffs |-> {}]
       IN  IF give_back_mode
           THEN GiveBackReturned(
                    get_best_give_back(board, current_player,
                                       get_give_back_options(flipped_positions), s),
                    tick, order)
           ELSE Returned(MoveSearch(s), <<>>, tick, order)
    /\ UNCHANGED <<game, move_flips, gave_back, unsorted_moves, sorted_moves>>
    /\ Advance(FALSE)

\* self.game = OthelloGame(...): a new game in the same process
new_game ==
    /\ Asked(New)
    /\ op' = "__init__"
    /\ ret' = "None"
    /\ board' = InitBoard
    /\ current_player' = BLACK
    /\ give_back_mode' = FALSE
    /\ flipped_positions' = <<>>
    /\ consecutive_passes' = 0
    /\ move_history' = <<>>
    /\ move_times' = [p \in {BLACK, WHITE} |-> <<>>]
    /\ last_move' = None
    /\ last_give_back' = None
    /\ move_flips' = <<>>
    /\ gave_back' = FALSE
    /\ UNCHANGED agent
    /\ Advance(FALSE)

\* A game that reaches, without a pass, a board with 14 disks and Black to move.
BlackToMoveLine ==
    << Mv(2, 4), Mv(2, 5), Mv(2, 6), Mv(1, 6), Mv(4, 2), Mv(2, 7), Mv(0, 7), Gb(2, 5),
       Mv(5, 2), Gb(3, 4), Mv(6, 1), Gb(5, 2), Mv(0, 5) >>
\* A game that reaches the same board with White to move, Black having passed.
WhiteToMoveLine ==
    << Mv(2, 4), Mv(2, 5), Mv(2, 6), Mv(1, 6), Mv(4, 2), Mv(2, 7), Mv(0, 7), Gb(2, 5),
       Mv(0, 5), Ps, Mv(5, 2), Gb(3, 4), Mv(6, 1), Gb(5, 2) >>
\* Two games of one process, the agent asked at the end of each.
TwoGamesLine == BlackToMoveLine \o <<Best, New>> \o WhiteToMoveLine \o <<Best, Quit>>

\* A game played to two empty cells: White has placed (6, 3), flipped seven disks
\* and has to give one back.
EndgameLine ==
    << Mv(3, 5), Mv(2, 3), Mv(2, 2), Mv(2, 1), Mv(1, 2), Mv(0, 2), Mv(1, 1), Mv(0,
       1), Mv(2, 0), Mv(3, 0), Mv(4, 0), Mv(2, 5), Mv(0, 3), Gb(1, 2), Mv(3, 1),
       Mv(3, 2), Mv(0, 4), Mv(5, 3), Mv(5, 2), Mv(1, 0), Mv(4, 1), Gb(2, 1), Mv(5,
       0), Mv(3, 6), Mv(4, 2), Gb(3, 1), Mv(1, 3), Mv(6, 1), Mv(5, 4), Mv(6, 5),
       Mv(2, 4), Mv(1, 5), Mv(0, 5), Mv(4, 6), Mv(5, 1), Gb(4, 1), Mv(2, 6), Gb(2,
       5), Mv(4, 7), Mv(0, 6), Mv(1, 4), Mv(6, 2), Mv(5, 6), Mv(0, 0), Gb(0, 3),
       Mv(4, 5), Mv(2, 7), Gb(3, 6), Mv(1, 7), Mv(0, 7), Mv(7, 4), Mv(6, 7), Mv(5,
       5), Mv(1, 6), Gb(2, 5), Mv(5, 7), Gb(4, 6), Mv(6, 4), Mv(3, 7), Mv(7, 5),
       Mv(7, 7), Mv(6, 6), Mv(7, 0), Gb(5, 2), Mv(7, 1), Mv(6, 0), Mv(7, 3), Mv(6,
       3) >>

\* A game with ten passes: Black makes the tenth with five cells empty, and
\* White, to move, can place a disk on three of them.
TenPassLine ==
    << Mv(5, 3), Mv(3, 2), Mv(2, 4), Mv(5, 4), Mv(5, 2), Mv(6, 3), Gb(5, 3),
       Mv(4, 2), Gb(4, 3), Mv(6, 2), Gb(5, 2), Mv(4, 1), Gb(4, 2), Mv(4, 5),
       Gb(4, 3), Mv(2, 2), Gb(4, 2), Mv(1, 2), Gb(3, 2), Mv(6, 4), Gb(5, 4),
       Mv(2, 3), Gb(4, 3), Mv(7, 3), Gb(6, 3), Mv(5, 1), Gb(5, 3), Mv(1, 1),
       Gb(2, 2), Mv(3, 5), Gb(4, 4), Mv(6, 1), Gb(6, 3), Mv(3, 1), Gb(3, 3),
       Mv(1, 3), Gb(2, 3), Mv(7, 0), Gb(5, 2), Mv(3, 6), Gb(3, 5), Mv(7, 2),
       Gb(6, 2), Mv(2, 1), Gb(2, 3), Mv(7, 4), Gb(7, 3), Mv(6, 5), Gb(5, 4),
       Mv(0, 1), Gb(1, 2), Mv(3, 0), Gb(4, 1), Mv(2, 0), Gb(3, 1), Mv(1, 0),
       Gb(2, 0), Mv(2, 5), Gb(5, 2), Mv(4, 6), Gb(2, 4), Mv(6, 6), Gb(6, 5),
       Mv(7, 1), Gb(4, 1), Mv(5, 5), Gb(4, 5), Mv(4, 0), Gb(4, 3), Mv(2, 7),
       Gb(4, 5), Mv(2, 6), Gb(2, 3), Mv(0, 0), Gb(2, 2), Mv(7, 5), Gb(7, 4),
       Mv(5, 0), Gb(3, 0), Mv(7, 7), Gb(5, 5), Mv(6, 0), Gb(6, 2), Ps, Mv(1,
       7), Gb(2, 6), Ps, Mv(0, 3), Mv(0, 4), Mv(0, 2), Gb(2, 4), Ps, Mv(7,
       6), Gb(6, 5), Ps, Mv(4, 7), Gb(4, 6), Ps, Mv(5, 6), Gb(6, 6), Ps,
       Mv(3, 7), Gb(4, 6), Ps, Mv(5, 7), Gb(6, 6), Ps, Mv(0, 5), Ps, Mv(1,
       4), Gb(2, 4), Ps >>

\* PassLine up to its give-back: White is to move, and after its move to (5, 0)
\* Black has none.
PassAheadLine == SubSeq(PassLine, 1, 8)

\* EndgameLine played on to one empty cell: White gives (6, 5) back, Black places
\* (7, 6), and White is to move with the one move (7, 2), which wins the game.
LastCellLine == EndgameLine \o <<Gb(6, 5), Mv(7, 6)>>

\* A game of eight calls: White is to move on a board of 11 disks, and the search
\* reaches one board twice at the same depth, on two paths.
TranspositionLine ==
    << Mv(3, 5), Mv(2, 3), Mv(5, 2), Mv(3, 6), Gb(3, 5), Mv(2, 2), Mv(2, 1), Mv(1, 1) >>

\* The caller tests is_game_over before it asks the agent, as the game loop does.
AgentLines ==
    {<<Over, Best, Quit>>, TwoGamesLine, EndgameLine \o <<Over, Best, Quit>>,
     PassAheadLine \o <<Over, Best, Quit>>, OverLine \o <<Over, Quit>>,
     TenPassLine \o <<Over, Quit>>, LastCellLine \o <<Over, Best, Quit>>,
     TranspositionLine \o <<Over, Best, Quit>>}

AgentInit == Started(AgentLines)

AgentNext ==
    \/ \E row \in Coords, col \in Coords, t \in ExecTimes : make_move(row, col, t)
    \/ \E row \in Coords, col \in Coords, t \in ExecTimes : give_back_disk(row, col, t)
    \/ \E t \in ExecTimes : pass_turn(t)
    \/ is_game_over
    \/ \E tick \in Ticks, order \in Orders : get_best_move(tick, order)
    \/ new_game

AgentSpec == AgentInit /\ [][AgentNext]_vars

\* ================================================================ games played to the end
NonTerminal == ~game_over(board, current_player, give_back_mode, consecutive_passes).value

\* while not self.game.is_game_over(): the side to move places a disk, gives one
\* back or passes, and the call succeeds.
play_move(row, col) ==
    /\ NonTerminal
    /\ make_move(row, col, NoTime)
    /\ ret' = "True"

play_give_back(row, col) ==
    /\ NonTerminal
    /\ give_back_disk(row, col, NoTime)
    /\ ret' = "True"

play_pass ==
    /\ NonTerminal
    /\ pass_turn(NoTime)
    /\ ret' = "True"

\* Games that follow a line up to their last cells and are then played out in
\* every way.
PlayLines ==
    {SubSeq(EndgameLine, 1, 66) \o <<Play>>, SubSeq(TenPassLine, 1, 110) \o <<Play>>}

PlayInit == Started(PlayLines)

PlayNext ==
    \/ \E row \in Index, col \in Index : play_move(row, col)
    \/ \E row \in Index, col \in Index : play_give_back(row, col)
    \/ play_pass

\* The game loop goes on as long as the game is not over.
PlaySpec == PlayInit /\ [][PlayNext]_vars /\ WF_vars(PlayNext)

\* ================================================================ the queries as calls
\* A method that assigns to no field of the game: the caller gets its result.
Queried(call, result) ==
    /\ Issued(call)
    /\ op' = call[1]
    /\ ret' = result
    /\ UNCHANGED <<game, move_flips, gave_back>>
    /\ UNCHANGED agent
    /\ Advance(FALSE)

call_has_valid_moves ==
    Queried(<<"has_valid_moves">>,
            IF has_valid_moves(board, current_player, give_back_mode) THEN "True"
            ELSE "False")

call_get_valid_moves ==
    Queried(<<"get_valid_moves">>,
            IF get_valid_moves(board, current_player, give_back_mode) = <<>> THEN "[]"
            ELSE "cells")

call_is_valid_move(row, col) ==
    Queried(<<"is_valid_move", row, col>>,
            is_valid_move(board, current_player, give_back_mode, row, col))

call_get_flippable_disks(row, col) ==
    Queried(<<"get_flippable_disks", row, col>>,
            IF get_flippable_disks(board, current_player, row, col) = <<>> THEN "[]"
            ELSE "cells")

call_get_winner ==
    Queried(<<"get_winner">>,
            IF get_winner(board) = BLACK THEN "1"
            ELSE IF get_winner(board) = WHITE THEN "-1"
            ELSE "0")

QueryNext ==
    \/ Next
    \/ call_has_valid_moves
    \/ call_get_valid_moves
    \/ \E row \in Coords, col \in Coords : call_is_valid_move(row, col)
    \/ \E row \in Coords, col \in Coords : call_get_flippable_disks(row, col)
    \/ call_get_winner

QuerySpec == Init /\ [][QueryNext]_vars

\* ================================================================ properties of the agent
\* The state a get_best_move call has just answered: the call leaves the game as
\* it found it, so the game fields are those of the state it was called on.
Answered == op = "get_best_move" /\ search.called

\* C14: with no time pressure, get_best_move on a non-terminal state returns a
\* legal action, a cell of get_valid_moves() in the normal phase with at least one
\* valid move and a cell of flipped_positions in give-back mode, whatever earlier
\* searches left in position_cache.
C14_BestMoveIsLegal ==
    (Answered /\ search.tick = 0 /\ NonTerminal)
        => IF give_back_mode
           THEN best_move \in Range(flipped_positions)
           ELSE has_valid_moves(board, current_player, give_back_mode)
                    => best_move \in Range(get_valid_moves(board, current_player,
                                                           give_back_mode))

\* C19: no alphabeta node reads a position_cache entry that a node with the other
\* colour to move wrote. (An entry is written once: a node stores under its key
\* only if the lookup at its entry missed and its descendants, of smaller depth,
\* cannot write that key; so two nodes share an entry only through such a read.)
C19_CacheKeepsSidesApart == Answered => search.hits = {}

\* C15: a time overrun is not an error: when recursive calls of a move search saw
\* the deadline exceeded, on a non-terminal normal-phase state with at least one
\* valid move, get_best_move still returned one of the state's valid moves, never
\* None.
C15_OverrunStillReturnsValidMove ==
    (Answered /\ search.timeouts > 0 /\ ~give_back_mode /\ NonTerminal
        /\ has_valid_moves(board, current_player, give_back_mode))
        => /\ best_move # None
           /\ best_move \in Range(get_valid_moves(board, current_player, give_back_mode))

\* A search of the 14-disk board in which every recursive call ran out of time.
C15_Witness ==
    /\ Answered /\ search.tick = 51 /\ ~give_back_mode /\ NonTerminal
    /\ DiskCount(board) = 14
    /\ search.timeouts > 0 /\ search.timeouts = search.calls - 1
    /\ best_move \in Range(get_valid_moves(board, current_player, give_back_mode))

\* C20: the search's simulation refines the rules engine. On every board, for
\* both colours and every cell, simulate_move succeeds exactly when is_valid_move
\* holds for that colour, returns the flipped list of flip_disks and leaves the
\* board of make_move; and the successor alphabeta builds from it is the position
\* the engine reaches by make_move followed, when 2 or more disks were flipped, by
\* give_back_disk at one of the pending positions, the other colour to move.
C20_SimulationRefinesEngine ==
    /\ \A p \in {BLACK, WHITE}, row \in Index, col \in Index : Refines(board, p, row, col)
    /\ Answered => search.strays = 0

\* A search that built successors with a disk handed back, from a board on which
\* the side to move has a move.
C20_Witness ==
    /\ Answered /\ ~give_back_mode
    /\ search.handed > 0 /\ search.strays = 0
    /\ \E row \in Index, col \in Index :
           simulate_move(board, row, col, current_player).is_valid

\* The search value of the k-th candidate for the player who gives the disk back:
\* the score get_best_give_back keeps is alphabeta's value for the maximizing
\* side at the root of the candidate's search, the opponent, who is to move there.
MoverValue(k) == 0 - search.scores[k]

\* C16: with two or more candidates get_best_give_back returns the candidate of
\* the smallest search value for the player giving the disk back, the earliest
\* of them in flipped_positions.
C16_GiveBackLeastFavourableToMover ==
    (Answered /\ give_back_mode /\ Len(flipped_positions) >= 2)
        => \E k \in 1 .. Len(flipped_positions) :
               /\ best_move = flipped_positions[k]
               /\ \A j \in 1 .. Len(flipped_positions) : MoverValue(k) <= MoverValue(j)
               /\ \A j \in 1 .. (k - 1) : MoverValue(k) < MoverValue(j)

\* ================================================================ properties of sort_moves
Occurrences(lst, x) == Cardinality({k \in 1 .. Len(lst) : lst[k] = x})

IsPermutationOf(lst, of) ==
    /\ Len(lst) = Len(of)
    /\ \A x \in Range(lst) \cup Range(of) : Occurrences(lst, x) = Occurrences(of, x)

\* 0 for a corner, 1 for another cell of the rim, 2 for a cell of the interior
Tier(p) ==
    (IF p[1] \in {0, SIZE - 1} THEN 0 ELSE 1) + (IF p[2] \in {0, SIZE - 1} THEN 0 ELSE 1)

Tiered(lst) == \A i, j \in 1 .. Len(lst) : i < j => Tier(lst[i]) <= Tier(lst[j])

\* C21: whatever the list and whatever the shuffles do, sort_moves returns a
\* permutation of its input in which every corner comes before every other cell
\* of the rim and every cell of the rim before every cell of the interior. The
\* same holds of the two outcomes the search model uses.
C21_SortedIntoTiers ==
    /\ op = "sort_moves"
           => IsPermutationOf(sorted_moves, unsorted_moves) /\ Tiered(sorted_moves)
    /\ \A order \in Orders :
           /\ sort_moves(unsorted_moves, order) \in sort_moves_results(unsorted_moves)
           /\ IsPermutationOf(sort_moves(unsorted_moves, order), unsorted_moves)
           /\ Tiered(sort_moves(unsorted_moves, order))

\* A list with an interior cell first and a corner last, returned with the two
\* edge cells exchanged.
C21_Witness ==
    /\ op = "sort_moves"
    /\ unsorted_moves = << <<2, 3>>, <<4, 7>>, <<0, 3>>, <<0, 0>> >>
    /\ sorted_moves = << <<0, 0>>, <<0, 3>>, <<4, 7>>, <<2, 3>> >>

\* ================================================================ properties of the search tree
\* The time limit in force at the root of the search just answered.
RootLimit == IF give_back_mode THEN GIVE_BACK_TIME_LIMIT ELSE TIME_LIMIT

\* C22: every alphabeta call of a search tests the clock against the limit in
\* force at the root, 50 s in a move search and 20 s in a give-back search: no
\* call tests it against another limit, and so none goes on after the root's
\* limit has run out.
C22_OneDeadlineForTheWholeSearch ==
    (Answered /\ search.calls > 0)
        => /\ search.limits = {RootLimit}
           /\ search.overdue = 0

\* max_depth of the root of the search just answered: get_best_give_back is
\* called with max_depth=6.
RootDepth == IF give_back_mode THEN 6 ELSE SearchDepth(board)

\* C23: alphabeta terminates. A call nested in n calls (the root in none) has
\* remaining depth exactly the root's max_depth less n, child of a move and
\* forced-pass node alike; no call has a negative depth, so the nesting never
\* exceeds the root's max_depth, which get_best_move chooses among 4, 6 and 8.
C23_DepthFallsByOnePerCall ==
    /\ SearchDepth(board) \in {4, 6, 8}
    /\ (Answered /\ search.calls > 0)
           => \A frame \in search.frames :
                  /\ frame[2] = RootDepth - frame[1]
                  /\ frame[2] >= 0
                  /\ frame[1] <= RootDepth /\ RootDepth <= 8

\* A search that went through forced-pass nodes and reached depth 0.
C23_Witness ==
    /\ Answered /\ search.forced > 0
    /\ <<RootDepth, 0>> \in search.frames

\* ================================================================ properties of the evaluation
\* The number of cells on which colour side can place a disk, by the rules.
Mobility(b, side) ==
    Cardinality({p \in Index \X Index :
                    b[p[1]][p[2]] = EMPTY /\ BracketedRuns(b, side, p[1], p[2]) # <<>>})

CornerDiff(b, side) ==
    LET corners == {<<0, 0>>, <<0, SIZE - 1>>, <<SIZE - 1, 0>>, <<SIZE - 1, SIZE - 1>>}
    IN  Cardinality({p \in corners : b[p[1]][p[2]] = side})
            - Cardinality({p \in corners : b[p[1]][p[2]] = 0 - side})

DiskDiff(b, side) == Count(b, side) - Count(b, 0 - side)

\* The normal-phase game with this board and pass counter is over.
Terminal(b, passes) ==
    \/ passes >= 10
    \/ \A r \in Index : \A c \in Index : b[r][c] # EMPTY
    \/ (~CanPlace(b, BLACK) /\ ~CanPlace(b, WHITE))

\* The score of the claim for colour side to move.
StatedScore(b, side, passes) ==
    IF Terminal(b, passes)
    THEN (IF DiskDiff(b, side) > 0 THEN 10000
          ELSE IF DiskDiff(b, side) < 0 THEN 0 - 10000
          ELSE 0)
    ELSE IF DiskCount(b) < 20 THEN 2 * Mobility(b, side) + 25 * CornerDiff(b, side)
    ELSE IF DiskCount(b) < 50
    THEN DiskDiff(b, side) + 25 * CornerDiff(b, side) + 2 * Mobility(b, side)
    ELSE DiskDiff(b, side)

\* C24: evaluate_game_state scores a normal-phase state for its side to move,
\* the terminal test first: 10000, -10000 or 0 by the disk counts when the game
\* is over; else 2*mobility + 25*cornerDiff below 20 disks, diskDiff +
\* 25*cornerDiff + 2*mobility from 20 to 49 disks and diskDiff from 50 disks on.
\* Checked on every board of the games played, for either colour to move.
C24_EvaluationByPhase ==
    \A side \in {BLACK, WHITE} :
        evaluate_game_state(board, side, consecutive_passes)
            = StatedScore(board, side, consecutive_passes)

\* A finished game with fewer than 20 disks: the terminal score, not the early
\* game's, is returned.
C24_Witness ==
    /\ op = "is_game_over" /\ ret = "True" /\ DiskCount(board) < 20
    /\ evaluate_game_state(board, current_player, consecutive_passes) \in {10000, 0 - 10000}
    /\ early_game_evaluation(board, current_player)
           # evaluate_game_state(board, current_player, consecutive_passes)

\* ================================================================ properties of the pass counter
\* The passes recorded in the history of the game.
PassesMade(history) ==
    Cardinality({k \in 1 .. Len(history) :
                    Len(history[k]) = 3 /\ history[k][2] = "pass turn"})

Queries ==
    {"is_game_over", "has_valid_moves", "get_valid_moves", "is_valid_move",
     "get_flippable_disks", "get_winner"}

\* C26: a call of is_game_over, has_valid_moves, get_valid_moves, is_valid_move,
\* get_flippable_disks or get_winner returns with every field of the game as it
\* was at entry; is_game_over, which negates current_player to look at the
\* opponent's moves, returns with current_player restored.
C26_QueriesLeaveTheGameAlone ==
    [][op' \in Queries
           => /\ game' = game
              /\ op' = "is_game_over" => current_player' = current_player]_vars

\* is_game_over has looked at both colours' moves, with White to move, and
\* answered False.
C26_Witness ==
    /\ op = "is_game_over" /\ ret = "False"
    /\ ~give_back_mode /\ consecutive_passes < PASS_CEILING /\ ~BoardFull(board)
    /\ current_player = WHITE
    /\ ~CanPlace(board, BLACK) /\ CanPlace(board, WHITE)

\* ================================================================ properties of the end of the game
\* C27: in every state reached by legal play, is_game_over() is true only if the
\* board is full or neither colour can place a disk: the ceiling on the pass
\* counter never ends a game in which a disk can still be placed.
C27_GameEndsOnlyWithoutMoves ==
    game_over(board, current_player, give_back_mode, consecutive_passes).value
        => \/ \A r \in Index : \A c \in Index : board[r][c] # EMPTY
           \/ (~CanPlace(board, BLACK) /\ ~CanPlace(board, WHITE))

\* The disks placed so far: the move records of the history.
PlacementsMade(history) ==
    Cardinality({k \in 1 .. Len(history) : Len(history[k]) = 4})

\* What is left of a game: the empty cells first, then the passes up to the
\* ceiling, then the disk still to be given back.
Remaining ==
    32 * Count(board, EMPTY) + 2 * (PASS_CEILING - consecutive_passes)
        + (IF give_back_mode THEN 1 ELSE 0)

\* C28: every game ends. When the side to move goes on placing a disk, giving
\* one back or passing for as long as the game is not over, is_game_over()
\* becomes true, and no game has more than 60 placements; every such step
\* leaves less of the game.
C28_EveryGameEnds ==
    /\ <>(~NonTerminal)
    /\ [](PlacementsMade(move_history) <= 60)
    /\ [][Remaining' < Remaining /\ Remaining' >= 0]_vars

\* A game played until the board is full: 60 disks were placed.
C28_Witness ==
    /\ ~NonTerminal
    /\ \A r \in Index : \A c \in Index : board[r][c] # EMPTY
    /\ PlacementsMade(move_history) = 60

\* ---------------------------------------------------------------- C29
\* The kinds of mutating operation that some argument makes succeed now.
CanGiveBack ==
    \E row \in Coords, col \in Coords : give_back_mode /\ InFlipped(row, col, flipped_positions)

CanMove ==
    \E row \in Coords, col \in Coords :
        is_valid_move(board, current_player, give_back_mode, row, col) = "True"

CanPass == ~PassRefused(board, current_player, give_back_mode)

\* C29: while is_game_over() is false exactly one kind of mutating operation
\* can succeed: give_back_disk in the give-back phase, make_move in the normal
\* phase when the side to move has a valid move, pass_turn in the normal phase
\* when it has none.
C29_ExactlyOneKindOfOperation ==
    NonTerminal =>
        /\ give_back_mode => CanGiveBack /\ ~CanMove /\ ~CanPass
        /\ (~give_back_mode /\ has_valid_moves(board, current_player, give_back_mode))
              => CanMove /\ ~CanGiveBack /\ ~CanPass
        /\ (~give_back_mode /\ ~has_valid_moves(board, current_player, give_back_mode))
              => CanPass /\ ~CanMove /\ ~CanGiveBack

\* ---------------------------------------------------------------- C30
\* C30: every value alphabeta returns at a cut-off (a finished game, depth 0 or
\* the time limit) is the value for the colour to move at the root of the
\* search, whatever the depth of the node and the forced passes above it; a
\* finished game the root's colour has won is never returned as -10000 and one
\* it has lost never as +10000.
C30_CutOffsScoredForTheRoot ==
    Answered =>
        \A leaf \in search.cutoffs :
            /\ leaf.as_root
            /\ ~(leaf.outcome = "won" /\ leaf.score = 0 - 10000)
            /\ ~(leaf.outcome = "lost" /\ leaf.score = 10000)

\* ---------------------------------------------------------------- C31
\* Plain minimax to max_depth over the tree alphabeta searches: the same cut-off
\* test and evaluation, the same children (simulate_move, the disk of
\* simple_give_back handed back, the forced pass), no window, no cache, no clock.
RECURSIVE minimax(_, _, _, _, _)
RECURSIVE MinimaxLoop(_, _, _, _, _, _, _)

MinimaxBetter(maximizing_player, best_eval, eval_val) ==
    IF maximizing_player
    THEN IF eval_val > best_eval THEN eval_val ELSE best_eval
    ELSE IF eval_val < best_eval THEN eval_val ELSE best_eval

MinimaxChild(child, max_depth, maximizing_player) ==
    minimax(child.board, child.player, 0, max_depth - 1, ~maximizing_player)

MinimaxTried(b, cp, max_depth, maximizing_player, moves, i, best_eval, sim) ==
    IF ~sim.is_valid
    THEN MinimaxLoop(b, cp, max_depth, maximizing_player, moves, i + 1, best_eval)
    ELSE MinimaxLoop(b, cp, max_depth, maximizing_player, moves, i + 1,
                     MinimaxBetter(maximizing_player, best_eval,
                                   MinimaxChild(Successor(sim, cp), max_depth,
                                                maximizing_player)))

MinimaxLoop(b, cp, max_depth, maximizing_player, moves, i, best_eval) ==
    IF i > Len(moves) THEN best_eval
    ELSE MinimaxTried(b, cp, max_depth, maximizing_player, moves, i, best_eval,
                      simulate_move(b, moves[i][1], moves[i][2], cp))

MinimaxExpanded(b, cp, max_depth, maximizing_player, valid_moves) ==
    IF valid_moves = <<>>
    THEN MinimaxChild([board |-> b, player |-> Switched(cp)], max_depth, maximizing_player)
    ELSE MinimaxLoop(b, cp, max_depth, maximizing_player, valid_moves, 1,
                     IF maximizing_player THEN 0 - INF ELSE INF)

minimax(b, cp, passes, max_depth, maximizing_player) ==
    IF max_depth = 0 \/ game_over(b, cp, FALSE, passes).value
    THEN evaluate_game_state(b, cp, passes)
    ELSE MinimaxExpanded(b, cp, max_depth, maximizing_player, get_valid_moves(b, cp, FALSE))

\* The value of the first alphabeta call of the search just answered, and the
\* minimax value of the node it was called on.
RootValue == IF give_back_mode THEN search.scores[1] ELSE search.value

RootMinimax ==
    IF give_back_mode
    THEN minimax(GivenBack(board, current_player, flipped_positions[1][1],
                           flipped_positions[1][2]),
                 Switched(current_player), 0, 6, TRUE)
    ELSE minimax(board, current_player, consecutive_passes, SearchDepth(board), TRUE)

\* C31: a search that starts with an empty position_cache and meets no timeout
\* returns at its root the value of plain minimax to the same depth over the
\* same tree, in every order sort_moves gives the moves.
C31_RootValueIsMinimax ==
    (Answered /\ search.fresh /\ search.timeouts = 0
        /\ (give_back_mode => Len(flipped_positions) >= 2))
        => RootValue = RootMinimax

\* ================================================================ the window
\* OthelloGUI.run_game on a new game: the loop of run_game, handle_input and
\* the agent's turn, one action per step between two calls of the engine.
\* pc: "start" on entry, "loop" at the while test, "body" inside the loop,
\* "input" before handle_input, "events" inside its for loop, "ai" after it,
\* "think" and "move" around the agent's move, "think_back" and "give_back"
\* around its give-back, "result" after the loop, "shown" once the result is
\* on the screen.

\* Clicks queued at most before handle_input fetches them.
MaxQueued == 2

\* round(time.time() - start, 2), in milliseconds
Round2(ms) == ((ms + 5) \div 10) * 10

\* The times the window measures: it never passes None.
GuiTimes == {<<Round2(t[1])>> : t \in ExecTimes \ {NoTime}}

\* The clock of the agent's searches from the window: 51 ms a call.
GuiTicks == {51}

\* The order sort_moves leaves equal moves in, in those searches.
GuiOrders == {"kept"}

\* A line as the window plays it, every call with a measured time.
Timed(line) ==
    [k \in 1 .. Len(line) |->
        IF line[k][1] \in {"make_move", "give_back_disk", "pass_turn"}
        THEN [line[k] EXCEPT ![Len(line[k])] = CHOOSE t \in GuiTimes : TRUE]
        ELSE line[k]]

\* A game against the agent in which Black, the human, has to pass: the
\* agent's moves are those of its search with a clock of 51 ms a call.
ForcedPassLine ==
    Timed(<< Mv(5, 3), Best, Mv(3, 2), Mv(2, 1), Best, Mv(3, 1), Mv(4, 1), Best,
             Mv(1, 0), Mv(2, 5), Best, Mv(3, 0), Mv(2, 3), Gb(3, 2), Best, Mv(5, 0),
             Ps >>)

\* A game in which the agent, Black, opens and has to give a disk back after
\* its third move.
AgentGivesBackLine ==
    Timed(<< Best, Mv(2, 4), Mv(2, 5), Best, Mv(2, 6), Mv(2, 3), Best, Mv(2, 2),
             Best, Gb(3, 3) >>)

\* OthelloGUI(player_mode, player_color).run_game() as the menu starts it.
GuiGames ==
    { [mode |-> "ai", color |-> BLACK, line |-> <<>>],
      [mode |-> "ai", color |-> WHITE, line |-> <<>>],
      [mode |-> "ai", color |-> BLACK, line |-> ForcedPassLine],
      [mode |-> "ai", color |-> WHITE, line |-> AgentGivesBackLine],
      [mode |-> "friend", color |-> BLACK, line |-> Timed(OverLine)] }

GuiInit ==
    \E g \in GuiGames :
        /\ Constructed({g.line}, {<<>>})
        /\ pc = "start"
        /\ player_mode = g.mode
        /\ gui_player_color = g.color
        /\ events = <<>>
        /\ pending = <<>>

\* What a step of the window that calls nothing leaves alone.
engine == <<game, agent, op, ret, move_flips, gave_back, script, free>>

\* The cells the human clicks: those of the line's next calls, and after the
\* line every cell where one of the colours could place a disk, and the disks
\* last flipped.
LineCells ==
    {<<script[k][2], script[k][3]>> :
        k \in {j \in 1 .. Len(script) :
                  j <= MaxQueued + 1 /\ script[j][1] \in {"make_move", "give_back_disk"}}}

OpenCells ==
    {p \in Index \X Index :
        \/ is_valid_move(board, BLACK, FALSE, p[1], p[2]) = "True"
        \/ is_valid_move(board, WHITE, FALSE, p[1], p[2]) = "True"}
    \cup Range(flipped_positions)

Clickable == IF script # <<>> THEN LineCells ELSE OpenCells

\* pygame.MOUSEBUTTONDOWN on the board: col = x // SQUARE_SIZE, row = y // SQUARE_SIZE
\* Nothing reads the queue before handle_input fetches it, so a click made at
\* any time since the last fetch is one made just before the next.
click(row, col) ==
    /\ pc = "input"
    /\ Len(events) < MaxQueued
    /\ <<row, col>> \in Clickable
    /\ events' = Append(events, <<row, col>>)
    /\ UNCHANGED <<engine, pc, player_mode, gui_player_color, pending>>

\* if self.game.player_mode == "ai" and self.player_color == -1: the agent opens
run_game ==
    /\ pc = "start"
    /\ pc' = IF player_mode = "ai" /\ gui_player_color = WHITE THEN "think" ELSE "loop"
    /\ UNCHANGED <<engine, player_mode, gui_player_color, events, pending>>

\* while not self.game.is_game_over()
loop_test ==
    /\ pc = "loop"
    /\ LET over == game_over(board, current_player, give_back_mode, consecutive_passes)
       IN  /\ current_player' = over.player
           /\ pc' = IF over.value THEN "result" ELSE "body"
    /\ UNCHANGED <<board, give_back_mode, flipped_positions, consecutive_passes,
                   move_history, move_times, last_move, last_give_back>>
    /\ UNCHANGED <<agent, op, ret, move_flips, gave_back, script, free>>
    /\ UNCHANGED <<player_mode, gui_player_color, events, pending>>

\* if not self.game.has_valid_moves() and not self.game.is_in_give_back_mode():
\*     self.game.pass_turn(execution_time=pass_time); continue
loop_pass(t) ==
    /\ pc = "body"
    /\ ~has_valid_moves(board, current_player, give_back_mode) /\ ~give_back_mode
    /\ pass_turn(t)
    /\ pc' = "loop"
    /\ UNCHANGED <<player_mode, gui_player_color, events, pending>>

loop_input ==
    /\ pc = "body"
    /\ has_valid_moves(board, current_player, give_back_mode) \/ give_back_mode
    /\ pc' = "input"
    /\ UNCHANGED <<engine, player_mode, gui_player_color, events, pending>>

\* handle_input: for event in pygame.event.get()
handle_input ==
    /\ pc = "input"
    /\ pending' = events
    /\ events' = <<>>
    /\ pc' = "events"
    /\ UNCHANGED <<engine, player_mode, gui_player_color>>

\* One pass through the body of that loop, for a click on the board.
handle_click(t) ==
    /\ pc = "events"
    /\ pending # <<>>
    /\ LET row == Head(pending)[1]
           col == Head(pending)[2]
       IN  IF give_back_mode
           THEN give_back_disk(row, col, t)
           ELSE IF is_valid_move(board, current_player, give_back_mode, row, col) = "True"
                THEN make_move(row, col, t)
                ELSE UNCHANGED engine
    /\ pending' = Tail(pending)
    /\ UNCHANGED <<pc, player_mode, gui_player_color, events>>

\* The for loop is through.
handle_input_done ==
    /\ pc = "events"
    /\ pending = <<>>
    /\ pc' = "ai"
    /\ UNCHANGED <<engine, player_mode, gui_player_color, events, pending>>

\* if self.game.player_mode == "ai" and self.game.current_player != self.player_color
AgentsTurn == player_mode = "ai" /\ current_player # gui_player_color

ai_pass(t) ==
    /\ pc = "ai"
    /\ AgentsTurn
    /\ ~has_valid_moves(board, current_player, give_back_mode)
    /\ pass_turn(t)
    /\ pc' = "loop"
    /\ UNCHANGED <<player_mode, gui_player_color, events, pending>>

ai_turn ==
    /\ pc = "ai"
    /\ pc' = IF AgentsTurn THEN "think" ELSE "loop"
    /\ AgentsTurn => has_valid_moves(board, current_player, give_back_mode)
    /\ UNCHANGED <<engine, player_mode, gui_player_color, events, pending>>

\* ai_move = get_best_move(self.game), give_back_pos = get_best_move(self.game)
ai_think(tick, order) ==
    /\ pc \in {"think", "think_back"}
    /\ get_best_move(tick, order)
    /\ pc' = IF pc = "think" THEN "move" ELSE "give_back"
    /\ UNCHANGED <<player_mode, gui_player_color, events, pending>>

\* self.game.make_move(*ai_move, execution_time=execution_time)
\* if self.game.is_in_give_back_mode(): ...
ai_move(t) ==
    /\ pc = "move"
    /\ best_move # None
    /\ make_move(best_move[1], best_move[2], t)
    /\ pc' = IF give_back_mode' THEN "think_back" ELSE "loop"
    /\ UNCHANGED <<player_mode, gui_player_color, events, pending>>

\* self.game.give_back_disk(*give_back_pos, execution_time=give_back_time)
ai_give_back(t) ==
    /\ pc = "give_back"
    /\ best_move # None
    /\ give_back_disk(best_move[1], best_move[2], t)
    /\ pc' = "loop"
    /\ UNCHANGED <<player_mode, gui_player_color, events, pending>>

\* sum(times) in milliseconds
RECURSIVE SumOf(_)
SumOf(times) == IF times = <<>> THEN 0 ELSE Head(times) + SumOf(Tail(times))

\* f"{total / len(times):.2f}" in hundredths of a second, 0 for no times
FmtAvg(times) ==
    IF times = <<>> THEN 0
    ELSE (2 * SumOf(times) + 10 * Len(times)) \div (20 * Len(times))

\* The lines run_game appends to self.game.move_history after the loop.
result_records(b, times, total) ==
    << <<"GAME OVER",
         IF get_winner(b) = BLACK THEN "BLACK WINS"
         ELSE IF get_winner(b) = WHITE THEN "WHITE WINS" ELSE "DRAW">>,
       <<"">>,
       <<"TIME STATISTICS:">>,
       <<"Total game time", Fmt2(total)>>,
       <<"BLACK", "Total", Fmt2(SumOf(times[BLACK])), "Avg", FmtAvg(times[BLACK])>>,
       <<"WHITE", "Total", Fmt2(SumOf(times[WHITE])), "Avg", FmtAvg(times[WHITE])>> >>

\* winner = self.game.get_winner() ... self.game.move_history.append(...)
show_result(total) ==
    /\ pc = "result"
    /\ move_history' = move_history \o result_records(board, move_times, total[1])
    /\ pc' = "shown"
    /\ UNCHANGED <<board, current_player, give_back_mode, flipped_positions,
                   consecutive_passes, move_times, last_move, last_give_back>>
    /\ UNCHANGED <<agent, op, ret, move_flips, gave_back, script, free>>
    /\ UNCHANGED <<player_mode, gui_player_color, events, pending>>

GuiNext ==
    \/ \E row \in Index, col \in Index : click(row, col)
    \/ run_game
    \/ loop_test
    \/ \E t \in GuiTimes : loop_pass(t)
    \/ loop_input
    \/ handle_input
    \/ \E t \in GuiTimes : handle_click(t)
    \/ handle_input_done
    \/ \E t \in GuiTimes : ai_pass(t)
    \/ ai_turn
    \/ \E tick \in GuiTicks, order \in GuiOrders : ai_think(tick, order)
    \/ \E t \in GuiTimes : ai_move(t)
    \/ \E t \in GuiTimes : ai_give_back(t)
    \/ \E total \in ExecTimes \ {NoTime} : show_result(total)

GuiSpec == GuiInit /\ [][GuiNext]_vars

\* ------------------------------------------------------------ C32
\* A click has been handled as a move or a give-back in this step.
ClickApplied == pc = "events" /\ ret' = "True" /\ move_history' # move_history

\* C32: in a game against the agent, the window applies a click as a move or a
\* give-back only when the colour to move is the human's.
C32_ClicksOnlyOnTheHumansTurn ==
    [][(player_mode = "ai" /\ ClickApplied) => current_player = gui_player_color]_vars

\* ------------------------------------------------------------ C33
\* C33: the move log holds one record for every time sample of the two colours
\* together, in every state of the game.
C33_OneRecordForEveryTime ==
    Len(move_history) = Len(move_times[BLACK]) + Len(move_times[WHITE])
====
